---- MODULE Spec2Model ----
(***************************************************************************)
(* Model of the SEC filings QA agent: the citation reconciliation of       *)
(* EnhancedSECQASystem.answer_question (qa_system.py) and the targeted     *)
(* retrieval of EnhancedSECDataRetriever (data_retriever.py).              *)
(*                                                                         *)
(* Texts are sequences of one-character strings, so that the regular       *)
(* expression \[C(\d+)\] of the code is matched character by character.    *)
(***************************************************************************)
EXTENDS Integers, Sequences, FiniteSets, TLC

\* ------------------------------------------------------------------ bounds
\* Most pieces (tags or plain characters) an answer text is built from.
MaxPieces == 4
\* Most evidence records offered to the synthesis step as allowed sources.
MaxAllowed == 3
\* Most tickers and most requested document types of a query analysis.
MaxTickers == 3
MaxDocTypes == 2

VARIABLES
    cpc,              \* position of the citation step: "synth" or "done"
    document_chunks,  \* the evidence list of the question (allowed sources)
    answer_text,      \* answer.answer as the synthesis step returned it
    original_ids,     \* qa_system.py:112
    new_text,         \* answer.answer after _compact_renumber, line 113
    id_map,           \* the mapping _compact_renumber returns
    sources,          \* answer.sources
    used_chunk_ids,   \* answer.used_chunk_ids
    citation_lines    \* the lines of the Citations block, lines 131-140

citeVars == <<cpc, document_chunks, answer_text, original_ids, new_text,
              id_map, sources, used_chunk_ids, citation_lines>>

VARIABLES
    analysis,         \* the QueryAnalysis handed to the retriever
    allow_default,    \* argument of fetch_targeted_filings
    strategy,         \* the dict _determine_retrieval_strategy returns
    rpc               \* position in fetch_targeted_filings

selVars == <<analysis, allow_default, strategy, rpc>>

VARIABLES
    fallback,         \* argument of fetch_targeted_filings
    max_targets,      \* argument of fetch_targeted_filings
    ti,               \* position of the targeted loop in the capped target list
    chunks,           \* the list the targeted loop accumulates
    result,           \* the value fetch_targeted_filings returns
    fetch_log         \* the fetcher calls made so far, with what each returned

retVars == <<fallback, max_targets, ti, chunks, result, fetch_log>>

VARIABLES
    qpc,              \* position in answer_question, "ready" between questions
    nq,               \* questions asked of this EnhancedSECQASystem so far
    query,            \* the QueryAnalysis of the question in progress
    target_companies, \* qa_system.py:73
    document_types,   \* qa_system.py:208
    date_from,        \* qa_system.py:202-206; <<>> stands for None
    li,               \* position of the loop of line 210 in target_companies
    all_chunks,       \* qa_system.py:199
    document_cache,   \* self.document_cache: cache key -> list of chunks
    missing_companies,\* self.missing_companies
    lookups,          \* the cache lookups of the session, with what each did
    model_output,     \* the answer object as the synthesis step returned it
    answer,           \* the answer object answer_question returned last
    last_error,       \* <<>>, or the step and message of the exception caught
    threads,          \* concurrent callers of answer_question: their locals
    service           \* the companies the filing service has filings of

qaVars == <<qpc, nq, query, target_companies, document_types, date_from, li,
            all_chunks, document_cache, missing_companies, lookups,
            model_output, answer, last_error, threads, service>>

vars == <<citeVars, selVars, retVars, qaVars>>

\* ------------------------------------------------------- generic helpers
Range(s) == {s[i] : i \in 1..Len(s)}

Min(a, b) == IF a < b THEN a ELSE b

RECURSIVE SeqsUpTo(_, _)
\* All sequences over S of length at most n.
SeqsUpTo(S, n) ==
    IF n = 0 THEN {<<>>}
    ELSE LET shorter == SeqsUpTo(S, n - 1)
         IN  shorter \cup {Append(s, x) : s \in shorter, x \in S}

RECURSIVE Flatten(_)
Flatten(ss) == IF ss = <<>> THEN <<>> ELSE Head(ss) \o Flatten(Tail(ss))

\* ------------------------------------------------- characters and numbers
Digits == {"0", "1", "2", "3", "4", "5", "6", "7", "8", "9"}

IsDigit(c) == c \in Digits

DigitVal(c) ==
    CASE c = "0" -> 0 [] c = "1" -> 1 [] c = "2" -> 2 [] c = "3" -> 3
      [] c = "4" -> 4 [] c = "5" -> 5 [] c = "6" -> 6 [] c = "7" -> 7
      [] c = "8" -> 8 [] c = "9" -> 9

DigitChar(d) ==
    CASE d = 0 -> "0" [] d = 1 -> "1" [] d = 2 -> "2" [] d = 3 -> "3"
      [] d = 4 -> "4" [] d = 5 -> "5" [] d = 6 -> "6" [] d = 7 -> "7"
      [] d = 8 -> "8" [] d = 9 -> "9"

RECURSIVE IntOf(_)
\* int(match.group(1)): the decimal value of a digit string; leading zeros
\* are dropped by the conversion.
IntOf(ds) ==
    IF ds = <<>> THEN 0
    ELSE 10 * IntOf(SubSeq(ds, 1, Len(ds) - 1)) + DigitVal(ds[Len(ds)])

RECURSIVE StrOf(_)
\* The decimal digits an f-string writes for a non-negative integer.
StrOf(n) == IF n < 10 THEN <<DigitChar(n)>>
            ELSE Append(StrOf(n \div 10), DigitChar(n % 10))

\* f"[C{n}]"
TagText(n) == <<"[", "C">> \o StrOf(n) \o <<"]">>

\* ------------------------------------------ the pattern \[C(\d+)\]
RECURSIVE DigitsEnd(_, _)
\* The first position at or after j that holds no digit (Len + 1 at the end).
DigitsEnd(text, j) ==
    IF j <= Len(text) /\ IsDigit(text[j]) THEN DigitsEnd(text, j + 1) ELSE j

\* The position of the closing bracket of a match that starts at i; 0 when
\* the pattern does not match at i.
MatchEnd(text, i) ==
    IF i + 3 <= Len(text) /\ text[i] = "[" /\ text[i + 1] = "C"
    THEN LET e == DigitsEnd(text, i + 2)
         IN  IF e > i + 2 /\ e <= Len(text) /\ text[e] = "]" THEN e ELSE 0
    ELSE 0

\* int(match.group(1)) of the match that spans i..e.
MatchId(text, i, e) == IntOf(SubSeq(text, i + 2, e - 1))

RECURSIVE FindSpans(_, _)
\* re.finditer: the spans <<start, end>> of the non-overlapping matches from
\* position i on, leftmost first.
FindSpans(text, i) ==
    IF i > Len(text) THEN <<>>
    ELSE LET e == MatchEnd(text, i)
         IN  IF e = 0 THEN FindSpans(text, i + 1)
             ELSE <<(<<i, e>>)>> \o FindSpans(text, e + 1)

\* The ids of the matches, in text order.
FindIter(text) ==
    LET sp == FindSpans(text, 1)
    IN  [k \in 1..Len(sp) |-> MatchId(text, sp[k][1], sp[k][2])]

RECURSIVE Dedupe(_, _)
\* The loop of _parse_used_tags: keep the first occurrence of each id.
Dedupe(ids, seen) ==
    IF ids = <<>> THEN <<>>
    ELSE IF Head(ids) \in seen THEN Dedupe(Tail(ids), seen)
    ELSE <<Head(ids)>> \o Dedupe(Tail(ids), seen \cup {Head(ids)})

\* _parse_used_tags without the seen test: every occurrence is kept.
parse_used_tags_all(text) == FindIter(text)

parse_used_tags(text) == Dedupe(FindIter(text), {})

\* {old: new for new, old in enumerate(used_ids, start=1)}; a later entry of
\* a repeated key would win.
Mapping(used_ids) ==
    [old \in Range(used_ids) |->
        CHOOSE new \in 1..Len(used_ids) :
            /\ used_ids[new] = old
            /\ \A k \in (new + 1)..Len(used_ids) : used_ids[k] # old]

RECURSIVE Sub(_, _, _)
\* re.sub with the replace callback: one left-to-right pass over the matches
\* of the original text.
Sub(text, i, mapping) ==
    IF i > Len(text) THEN <<>>
    ELSE LET e == MatchEnd(text, i)
         IN  IF e = 0 THEN <<text[i]>> \o Sub(text, i + 1, mapping)
             ELSE LET old_id == MatchId(text, i, e)
                      out == IF old_id \in DOMAIN mapping
                             THEN TagText(mapping[old_id])
                             ELSE SubSeq(text, i, e)
                  IN  out \o Sub(text, e + 1, mapping)

\* Lines 46-53, with the replacements done one id after the other, each on
\* the text the previous one left (str.replace in a loop).
RECURSIVE SubEach(_, _, _)
SubEach(text, used_ids, new) ==
    IF used_ids = <<>> THEN text
    ELSE SubEach(Sub(text, 1, (Head(used_ids) :> new)), Tail(used_ids), new + 1)

compact_renumber_sequential(text, used_ids) ==
    [new_text |-> SubEach(text, used_ids, 1), mapping |-> Mapping(used_ids)]

compact_renumber(text, used_ids) ==
    LET mapping == Mapping(used_ids)
    IN  [new_text |-> Sub(text, 1, mapping), mapping |-> mapping]

\* ------------------------------------------------ evidence and sources
\* The i-th evidence record of a question; chunk_id stands for the record.
Ev(i) == [chunk_id |-> i]

\* allowed_map of lines 81-83: position (from 1) -> record.
allowed_map == [i \in 1..Len(document_chunks) |-> document_chunks[i]]

\* Source(...) of lines 121-128.
Source(chunk) == [chunk_id |-> chunk.chunk_id]

RECURSIVE BuildSources(_, _)
\* Lines 118-129: one Source per used id that allowed_map resolves.
BuildSources(ids, amap) ==
    IF ids = <<>> THEN <<>>
    ELSE LET rest == BuildSources(Tail(ids), amap)
         IN  IF Head(ids) \in DOMAIN amap
             THEN <<Source(amap[Head(ids)])>> \o rest
             ELSE rest

RECURSIVE BuildCitations(_, _, _)
\* Lines 131-139: a line [C<new_id>] per used id that allowed_map resolves,
\* new_id counting every used id.
BuildCitations(ids, new_id, amap) ==
    IF ids = <<>> THEN <<>>
    ELSE LET rest == BuildCitations(Tail(ids), new_id + 1, amap)
         IN  IF Head(ids) \in DOMAIN amap
             THEN <<[new_id |-> new_id, chunk_id |-> amap[Head(ids)].chunk_id]>> \o rest
             ELSE rest

\* ------------------------------------------------------ citation step
\* The pieces answer texts are built from: plain text, tags in and out of
\* range, a tag with a leading zero, and a bracket that is no tag.
Pieces ==
    { <<"x">>, TagText(1), TagText(2), TagText(3), TagText(99),
      <<"[", "C", "0", "3", "]">>, <<"[", "C", "]">> }

AnswerTexts == {Flatten(ps) : ps \in SeqsUpTo(Pieces, MaxPieces)}

\* The evidence lists of a question: n different records, or (a company
\* named twice is served twice from the cache) the same record n times.
AllowedLists ==
    {[i \in 1..n |-> Ev(i)] : n \in 0..MaxAllowed}
        \cup {[i \in 1..n |-> Ev(1)] : n \in 2..MaxAllowed}

\* ---------------------------------------------- answer objects and queries
\* AnswerWithSources(...), models.py:83-135; texts are sequences of tokens,
\* confidence_score is kept in tenths, NoneStr stands for None.
NoneStr == <<"<None>">>

AnswerWithSources(text, srcs, confidence, companies, filing_types, limits) ==
    [answer |-> text, confidence_score |-> confidence, sources |-> srcs,
     citations |-> <<>>, methodology |-> <<>>, limitations |-> limits,
     companies_analyzed |-> companies, filing_types_used |-> filing_types,
     time_period_covered |-> NoneStr, key_metrics |-> <<>>,
     recommendations |-> <<>>, tool_used |-> NoneStr, used_chunk_ids |-> <<>>]

\* No answer returned yet.
NoAnswer == AnswerWithSources(<<>>, <<>>, 5, <<>>, <<>>, <<>>)

NoQuery ==
    [tickers |-> <<>>, suggested_tickers |-> <<>>, document_types |-> <<>>,
     time_periods |-> <<>>, keywords |-> <<>>]

\* No question has been put to a system in the other specifications.
QaIdle ==
    /\ qpc = "idle"
    /\ nq = 0
    /\ query = NoQuery
    /\ target_companies = <<>>
    /\ document_types = <<>>
    /\ date_from = <<>>
    /\ li = 1
    /\ all_chunks = <<>>
    /\ document_cache = <<>>
    /\ missing_companies = <<>>
    /\ lookups = <<>>
    /\ model_output = NoAnswer
    /\ answer = NoAnswer
    /\ last_error = <<>>
    /\ threads = <<>>
    /\ service = {}

\* The retriever is not involved in the citation step.
RetIdle ==
    /\ fallback = "general_small"
    /\ max_targets = 6
    /\ ti = 1
    /\ chunks = <<>>
    /\ result = <<>>
    /\ fetch_log = <<>>

SelIdle ==
    /\ analysis = [tickers |-> <<>>, document_types |-> <<>>, keywords |-> <<>>,
                   query_type |-> "single_ticker"]
    /\ allow_default = FALSE
    /\ strategy = [description |-> "", reason |-> "", targets |-> <<>>]
    /\ rpc = "idle"

CiteInit ==
    /\ SelIdle
    /\ RetIdle
    /\ QaIdle
    /\ cpc = "synth"
    /\ document_chunks \in AllowedLists
    /\ answer_text \in AnswerTexts
    /\ original_ids = <<>>
    /\ new_text = <<>>
    /\ id_map = <<>>
    /\ sources = <<>>
    /\ used_chunk_ids = <<>>
    /\ citation_lines = <<>>

\* Step 5 of answer_question, lines 111-140.
NormalizeCitations ==
    /\ cpc = "synth"
    /\ LET ids == parse_used_tags(answer_text)
           r == compact_renumber(answer_text, ids)
           srcs == BuildSources(ids, allowed_map)
       IN  /\ original_ids' = ids
           /\ new_text' = r.new_text
           /\ id_map' = r.mapping
           /\ sources' = srcs
           /\ used_chunk_ids' = [k \in 1..Len(srcs) |-> srcs[k].chunk_id]
           /\ citation_lines' = BuildCitations(ids, 1, allowed_map)
    /\ cpc' = "done"
    /\ UNCHANGED <<document_chunks, answer_text>>
    /\ UNCHANGED <<selVars, retVars, qaVars>>

CiteNext == NormalizeCitations

SpecCite == CiteInit /\ [][CiteNext]_vars

\* ------------------------------------------- properties of the citation step
NAllowed == Len(document_chunks)

OldSpans == FindSpans(answer_text, 1)
NewSpans == FindSpans(new_text, 1)
OldIds == FindIter(answer_text)
NewIds == FindIter(new_text)

SpanText(text, sp) == SubSeq(text, sp[1], sp[2])

\* The in-range integers that occur in a tag of the answer text.
InRangeIds == {n \in Range(OldIds) : n \in 1..NAllowed}

\* The position of the first occurrence of the id of occurrence k.
FirstIdx(ids, k) == CHOOSE j \in 1..k :
    ids[j] = ids[k] /\ \A i \in 1..(j - 1) : ids[i] # ids[k]

\* The 1-based rank of the id of occurrence k among the distinct ids, in
\* order of first appearance.
Rank(ids, k) == Cardinality({ids[j] : j \in 1..FirstIdx(ids, k)})

\* The text outside the matches, piece by piece.
Gaps(text) ==
    LET sp == FindSpans(text, 1)
    IN  [k \in 1..(Len(sp) + 1) |->
            SubSeq(text,
                   IF k = 1 THEN 1 ELSE sp[k - 1][2] + 1,
                   IF k = Len(sp) + 1 THEN Len(text) ELSE sp[k][1] - 1)]

\* C1: a tag [Cn] with n outside 1..N is left unchanged in the rewritten
\* text at every occurrence, gets no new number and no Source or citation
\* line.
C1_DanglingTagUntouched ==
    cpc = "done" =>
        \A k \in 1..Len(OldSpans) :
            OldIds[k] \notin 1..NAllowed =>
                /\ k <= Len(NewSpans)
                /\ SpanText(new_text, NewSpans[k]) = SpanText(answer_text, OldSpans[k])
                /\ OldIds[k] \notin DOMAIN id_map
                /\ Len(sources) = Cardinality(InRangeIds)

\* C2: when every tag of the text lies in 1..N, each occurrence of the k-th
\* distinct tag (by first appearance) is rewritten to [Ck], the text between
\* the tags is kept, and the new numbers are exactly 1..(number of distinct
\* tags).
C2_CompactRenumber ==
    (cpc = "done" /\ \A k \in 1..Len(OldIds) : OldIds[k] \in 1..NAllowed) =>
        /\ Len(NewSpans) = Len(OldSpans)
        /\ \A k \in 1..Len(OldSpans) :
              SpanText(new_text, NewSpans[k]) = TagText(Rank(OldIds, k))
        /\ Gaps(new_text) = Gaps(answer_text)
        /\ Range(NewIds) = 1..Cardinality(Range(OldIds))
        /\ \A j, k \in 1..Len(OldIds) :
              (OldIds[j] = OldIds[k]) <=> (NewIds[j] = NewIds[k])

C2_Witness ==
    /\ cpc = "done"
    /\ NAllowed = 3
    /\ OldIds = <<3, 1, 3>>
    /\ NewIds = <<1, 2, 1>>
    /\ Gaps(answer_text)[2] = <<"x">>

\* The positions of the answer text's tag occurrences that are the first
\* occurrence of an integer of 1..N, in text order.
FirstInRange ==
    SelectSeq([k \in 1..Len(OldIds) |-> k],
              LAMBDA k : FirstIdx(OldIds, k) = k /\ OldIds[k] \in 1..NAllowed)

\* C3: the number of Source entries equals the number of distinct integers
\* of 1..N that occur in a tag; each such integer has exactly one Source,
\* that of the evidence record it names, and there is no other Source.
C3_SourceCount ==
    cpc = "done" =>
        /\ Len(sources) = Cardinality(InRangeIds)
        /\ Len(sources) = Len(FirstInRange)
        /\ \A i \in 1..Len(sources) :
              sources[i] = Source(document_chunks[OldIds[FirstInRange[i]]])
        /\ Len(used_chunk_ids) = Len(sources)

C3_Witness ==
    /\ cpc = "done"
    /\ NAllowed = 2
    /\ OldIds = <<2, 99, 2, 1>>
    /\ Len(sources) = 2

\* C4: the k-th entry of the source list is the evidence record that the
\* tag [Ck] of the rewritten text refers to, for every k and every mix of
\* in-range and out-of-range tags.
C4_SourceOrderMatchesTags ==
    cpc = "done" =>
        /\ \A j \in 1..Len(OldIds) :
              OldIds[j] \in 1..NAllowed =>
                  /\ j <= Len(NewIds)
                  /\ NewIds[j] \in 1..Len(sources)
                  /\ sources[NewIds[j]] = Source(document_chunks[OldIds[j]])
        /\ \A k \in 1..Len(sources) :
              \E j \in 1..Len(NewIds) :
                  /\ NewIds[j] = k
                  /\ OldIds[j] \in 1..NAllowed
                  /\ sources[k] = Source(document_chunks[OldIds[j]])

\* ===================================================== retrieval strategy
\* The citation step is not involved in retrieval.
CiteIdle ==
    /\ cpc = "idle"
    /\ document_chunks = <<>>
    /\ answer_text = <<>>
    /\ original_ids = <<>>
    /\ new_text = <<>>
    /\ id_map = <<>>
    /\ sources = <<>>
    /\ used_chunk_ids = <<>>
    /\ citation_lines = <<>>

\* s[:n]
Take(s, n) == SubSeq(s, 1, Min(n, Len(s)))

\* str.upper() on the document-type codes a query can carry.
Upper(d) ==
    CASE d = "10-k" -> "10-K"
      [] d = "def 14a" -> "DEF 14A"
      [] OTHER -> d

\* str.lower() on the keywords a query can carry.
Lower(w) ==
    CASE w = "Trading" -> "trading"
      [] w = "Risk" -> "risk"
      [] OTHER -> w

\* The search terms of data_retriever.py that occur inside one lower-case
\* keyword.
TermsIn(w) ==
    CASE w = "insider" -> {"insider"}
      [] w = "trading" -> {"trading"}
      [] w = "risk" -> {"risk"}
      [] w = "risk factors" -> {"risk", "factor"}
      [] w = "md&a" -> {"md&a"}
      [] w = "management discussion" -> {"management discussion"}
      [] w = "compensation" -> {"compensation"}
      [] w = "proxy" -> {"proxy"}
      [] w = "financial" -> {"financial"}
      [] w = "healthcare" -> {"healthcare"}
      [] OTHER -> {}

\* kw = " ".join(analysis.keywords or []).lower(), kept as its words.
KwOf(a) == [i \in 1..Len(a.keywords) |-> Lower(a.keywords[i])]

\* term in kw: the term lies inside one keyword, or (the only term with a
\* space) spans the blank that join puts between two keywords.
In(term, kw) ==
    \/ \E i \in 1..Len(kw) : term \in TermsIn(kw[i])
    \/ /\ term = "management discussion"
       /\ \E i \in 1..(Len(kw) - 1) : kw[i] = "management" /\ kw[i + 1] = "discussion"

get_default_companies(a) ==
    LET kw == KwOf(a)
    IN  IF In("financial", kw) THEN <<"JPM">>
        ELSE IF In("healthcare", kw) THEN <<"JNJ">>
        ELSE <<"AAPL">>

\* Line 66 with the forms left in ascending order of their codes.
InsiderReqUnsorted(docset) ==
    SelectSeq(<<"3", "4", "5">>, LAMBDA f : f \in docset)

\* sorted(docset & {'3','4','5'}, key = {'4':0,'3':1,'5':2})
InsiderReq(docset) ==
    SelectSeq(<<"4", "3", "5">>, LAMBDA f : f \in docset)

Target(c, f, secs) == [ticker |-> c, filing_type |-> f, sections |-> secs]

RECURSIVE PairTargets(_, _)
\* for c in companies: for f in forms: targets.append(...)
PairTargets(companies, forms) ==
    IF companies = <<>> THEN <<>>
    ELSE [j \in 1..Len(forms) |-> Target(Head(companies), forms[j], <<>>)]
         \o PairTargets(Tail(companies), forms)

\* for c in companies: targets.append({c, form, sections})
FormTargets(companies, form, secs) ==
    [i \in 1..Len(companies) |-> Target(companies[i], form, secs)]

\* Line 64 without the default companies.
CompaniesTickersOnly(a) == Take(a.tickers, 2)

\* Line 64.
Companies(a) ==
    IF a.tickers # <<>> THEN Take(a.tickers, 2)
    ELSE Take(get_default_companies(a), 2)

\* Lines 68-73.
InsiderRule(companies, insider_req) ==
    [description |-> "Insider trading targeted",
     reason |-> "explicit_form_or_keyword",
     targets |-> PairTargets(Take(companies, 2),
                             IF insider_req # <<>> THEN insider_req ELSE <<"4">>)]

\* Lines 76-79, 82-85 and 88-91 with the loop left after its first pass.
FormRuleFirstCompany(description, companies, form, secs) ==
    [description |-> description,
     reason |-> "explicit_form_or_keyword",
     targets |-> FormTargets(Take(companies, 1), form, secs)]

\* Lines 76-79, 82-85 and 88-91: one target per company, at most 2.
FormRule(description, companies, form, secs) ==
    [description |-> description,
     reason |-> "explicit_form_or_keyword",
     targets |-> FormTargets(Take(companies, 2), form, secs)]

\* Lines 94-98.
ComparisonRule(companies) ==
    [description |-> "Multi-company comparison (10-K 1A)",
     reason |-> "query_type",
     targets |-> FormTargets(companies, "10-K", <<"1A">>)]

\* Lines 101-106 with the allow_default test dropped.
DefaultRuleAlways(companies, allow) ==
    [description |-> "Default targeted (single 10-K 1A)",
     reason |-> "default",
     targets |-> <<Target(companies[1], "10-K", <<"1A">>)>>]

\* companies[0] of an empty list raises IndexError: the selector returns no
\* strategy and the exception leaves it.
IndexError == [description |-> "", reason |-> "IndexError", targets |-> <<>>]

\* Lines 101-106.
DefaultRule(companies, allow) ==
    IF allow
    THEN IF companies = <<>> THEN IndexError
         ELSE [description |-> "Default targeted (single 10-K 1A)",
               reason |-> "default",
               targets |-> <<Target(companies[1], "10-K", <<"1A">>)>>]
    ELSE [description |-> "No matching rule", reason |-> "no_match",
          targets |-> <<>>]

\* Lines 59-106 with the 10-K test placed before the insider test.
determine_retrieval_strategy_form_first(a, allow) ==
    LET kw == KwOf(a)
        docset == {Upper(a.document_types[i]) : i \in 1..Len(a.document_types)}
        companies == Companies(a)
        insider_req == InsiderReq(docset)
    IN  IF "10-K" \in docset \/ In("risk", kw) \/ In("factor", kw)
        THEN FormRule("10-K Risk factors (Item 1A)", companies, "10-K", <<"1A">>)
        ELSE IF insider_req # <<>> \/ In("insider", kw) \/ In("trading", kw)
        THEN InsiderRule(companies, insider_req)
        ELSE IF "10-Q" \in docset \/ In("md&a", kw) \/ In("management discussion", kw)
        THEN FormRule("10-Q MD&A (part1item2)", companies, "10-Q", <<"part1item2">>)
        ELSE IF "DEF 14A" \in docset \/ In("compensation", kw) \/ In("proxy", kw)
        THEN FormRule("Proxy / compensation", companies, "DEF 14A", <<>>)
        ELSE IF a.query_type = "multi_ticker_comparison"
        THEN ComparisonRule(companies)
        ELSE DefaultRule(companies, allow)

determine_retrieval_strategy(a, allow) ==
    LET kw == KwOf(a)
        docset == {Upper(a.document_types[i]) : i \in 1..Len(a.document_types)}
        companies == Companies(a)
        insider_req == InsiderReq(docset)
    IN  IF insider_req # <<>> \/ In("insider", kw) \/ In("trading", kw)
        THEN InsiderRule(companies, insider_req)
        ELSE IF "10-K" \in docset \/ In("risk", kw) \/ In("factor", kw)
        THEN FormRule("10-K Risk factors (Item 1A)", companies, "10-K", <<"1A">>)
        ELSE IF "10-Q" \in docset \/ In("md&a", kw) \/ In("management discussion", kw)
        THEN FormRule("10-Q MD&A (part1item2)", companies, "10-Q", <<"part1item2">>)
        ELSE IF "DEF 14A" \in docset \/ In("compensation", kw) \/ In("proxy", kw)
        THEN FormRule("Proxy / compensation", companies, "DEF 14A", <<>>)
        ELSE IF a.query_type = "multi_ticker_comparison"
        THEN ComparisonRule(companies)
        ELSE DefaultRule(companies, allow)

\* ------------------------------------------------------- query analyses
TickerRoster == <<"AAPL", "MSFT", "JPM", "TSLA", "JNJ">>

\* Ticker lists of a query: in order of relevance, possibly empty, possibly
\* naming a company twice.
TickerLists ==
    {Take(TickerRoster, n) : n \in 0..MaxTickers} \cup {<<"AAPL", "AAPL">>}

DocTypeCodes == {"3", "4", "5", "10-K", "10-k", "10-Q", "DEF 14A", "8-K"}

DocTypeLists == SeqsUpTo(DocTypeCodes, MaxDocTypes) \cup {<<"5", "3", "4">>}

KeywordLists ==
    { <<>>, <<"growth">>, <<"insider">>, <<"Trading", "growth">>,
      <<"risk factors">>, <<"Risk">>, <<"md&a">>,
      <<"management", "discussion">>, <<"discussion", "management">>,
      <<"compensation">>, <<"proxy">>, <<"financial", "growth">>,
      <<"healthcare">> }

QueryTypes == {"single_ticker", "multi_ticker_comparison", "thematic_analysis"}

Analyses ==
    [tickers : TickerLists, document_types : DocTypeLists,
     keywords : KeywordLists, query_type : QueryTypes]

NoStrategy == [description |-> "", reason |-> "", targets |-> <<>>]

SelInit ==
    /\ CiteIdle
    /\ RetIdle
    /\ QaIdle
    /\ analysis \in Analyses
    /\ allow_default \in BOOLEAN
    /\ strategy = NoStrategy
    /\ rpc = "plan"

\* Line 39 of fetch_targeted_filings: the selector runs.
Plan ==
    /\ rpc = "plan"
    /\ strategy' = determine_retrieval_strategy(analysis, allow_default)
    /\ rpc' = IF strategy' = IndexError THEN "raised" ELSE "targeted"
    /\ UNCHANGED <<analysis, allow_default>>
    /\ UNCHANGED <<citeVars, retVars, qaVars>>

\* The selector run on its own.
SpecSel == SelInit /\ [][Plan]_vars

\* ------------------------------------------------ properties of the selector
\* The document types the query requests, in upper case.
Requested(a) == {Upper(a.document_types[i]) : i \in 1..Len(a.document_types)}

Suggests(a, terms) == \E t \in terms : In(t, KwOf(a))

Rule1(a) == Requested(a) \cap {"3", "4", "5"} # {} \/ Suggests(a, {"insider", "trading"})
Rule2(a) == "10-K" \in Requested(a) \/ Suggests(a, {"risk", "factor"})
Rule3(a) == "10-Q" \in Requested(a) \/ Suggests(a, {"md&a", "management discussion"})
Rule4(a) == "DEF 14A" \in Requested(a) \/ Suggests(a, {"compensation", "proxy"})
Rule5(a) == a.query_type = "multi_ticker_comparison"

Selected == rpc # "plan" /\ rpc # "idle"

Priority(f) == CASE f = "4" -> 0 [] f = "3" -> 1 [] f = "5" -> 2

\* The company of the query at position i: its i-th ticker, or the default
\* company when it names none.
CompanyAt(a, i) ==
    IF a.tickers # <<>> THEN a.tickers[i] ELSE get_default_companies(a)[i]

NCompanies(a) ==
    IF a.tickers # <<>> THEN Len(a.tickers) ELSE Len(get_default_companies(a))

\* C6: under rule 1 every target is an insider form; the targets are one per
\* (company, form) for the first (at most 2) companies and the requested
\* insider forms (at most 3), company by company, the forms of each company
\* in the order 4, 3, 5; with no insider form requested the only form is 4.
C6_InsiderTargets ==
    (Selected /\ Rule1(analysis)) =>
        LET T == strategy.targets
            req == Requested(analysis) \cap {"3", "4", "5"}
            forms == IF req = {} THEN {"4"} ELSE req
            nf == Cardinality(forms)
            nc == Min(2, NCompanies(analysis))
        IN  /\ \A k \in 1..Len(T) : T[k].filing_type \in {"3", "4", "5"}
            /\ Len(T) = nc * nf
            /\ Len(T) <= 6
            /\ \A i \in 1..nc :
                  /\ {T[(i - 1) * nf + j].filing_type : j \in 1..nf} = forms
                  /\ \A j \in 1..nf :
                        /\ T[(i - 1) * nf + j].ticker = CompanyAt(analysis, i)
                        /\ T[(i - 1) * nf + j].sections = <<>>
                  /\ \A j, k \in 1..nf :
                        j < k => Priority(T[(i - 1) * nf + j].filing_type)
                                   < Priority(T[(i - 1) * nf + k].filing_type)

C6_Witness ==
    /\ Selected
    /\ analysis.document_types = <<"5", "3", "4">>
    /\ Len(analysis.tickers) = 3
    /\ Len(strategy.targets) = 6
    /\ strategy.targets[4] = Target("MSFT", "4", <<>>)

\* C7: with no rule 1-4 matching and query type multi_ticker_comparison, the
\* targets are (ticker, 10-K, ["1A"]) for every ticker of the query: m
\* tickers give m targets.
C7_EveryTickerCompared ==
    (/\ Selected
     /\ ~Rule1(analysis) /\ ~Rule2(analysis) /\ ~Rule3(analysis) /\ ~Rule4(analysis)
     /\ Rule5(analysis)
     /\ analysis.tickers # <<>>) =>
        strategy.targets =
            [i \in 1..Len(analysis.tickers) |->
                Target(analysis.tickers[i], "10-K", <<"1A">>)]

\* C8: with no rule 1-5 matching, allow_default gives exactly the target
\* (first company, 10-K, ["1A"]) with reason default; without allow_default
\* there is no target and the reason is no_match.
C8_DefaultRule ==
    (/\ Selected
     /\ ~Rule1(analysis) /\ ~Rule2(analysis) /\ ~Rule3(analysis) /\ ~Rule4(analysis)
     /\ ~Rule5(analysis)) =>
        IF allow_default
        THEN /\ strategy.targets = <<Target(CompanyAt(analysis, 1), "10-K", <<"1A">>)>>
             /\ strategy.reason = "default"
        ELSE /\ strategy.targets = <<>>
             /\ strategy.reason = "no_match"

C8_Witness ==
    /\ Selected
    /\ ~allow_default
    /\ analysis.document_types = <<"8-K">>
    /\ analysis.keywords = <<"growth">>
    /\ analysis.query_type = "thematic_analysis"
    /\ strategy.reason = "no_match"
    /\ strategy.targets = <<>>

\* The number of the first rule of the ladder whose condition holds; 6 is
\* the default rule.
FirstRule(a) ==
    IF Rule1(a) THEN 1 ELSE IF Rule2(a) THEN 2 ELSE IF Rule3(a) THEN 3
    ELSE IF Rule4(a) THEN 4 ELSE IF Rule5(a) THEN 5 ELSE 6

\* The document types, the sections and the reason of the targets of rule n.
RuleForms(n) ==
    CASE n = 1 -> {"3", "4", "5"} [] n = 3 -> {"10-Q"} [] n = 4 -> {"DEF 14A"}
      [] OTHER -> {"10-K"}

RuleSections(n) ==
    CASE n \in {1, 4} -> <<>> [] n = 3 -> <<"part1item2">> [] OTHER -> <<"1A">>

RuleReason(n, allow) ==
    CASE n \in 1..4 -> "explicit_form_or_keyword"
      [] n = 5 -> "query_type"
      [] OTHER -> IF allow THEN "default" ELSE "no_match"

\* C18: the targets of a plan all come from the first rule, in the order
\* insider, 10-K, 10-Q, DEF 14A, comparison, default, whose condition holds:
\* they all have the document-type class and the sections of that rule, the
\* plan has the reason of that rule, and that rule does emit a target
\* (except the default rule without allow_default).
C18_FirstMatchWins ==
    Selected =>
        LET n == FirstRule(analysis)
            T == strategy.targets
        IN  /\ strategy.reason = RuleReason(n, allow_default)
            /\ \A k \in 1..Len(T) :
                  /\ T[k].filing_type \in RuleForms(n)
                  /\ T[k].sections = RuleSections(n)
            /\ (T = <<>>) <=> (n = 6 /\ ~allow_default)

C18_Witness ==
    /\ Selected
    /\ analysis.document_types = <<"10-K", "4">>
    /\ analysis.keywords = <<"compensation">>
    /\ analysis.query_type = "multi_ticker_comparison"
    /\ Len(strategy.targets) = 2
    /\ \A k \in 1..2 : strategy.targets[k].filing_type = "4"

\* C19: when the first rule that holds is rule 2, 3 or 4, the targets are
\* one per company, for the first 2 companies at most and in their order,
\* each (company, 10-K, ["1A"]) under rule 2, (company, 10-Q,
\* ["part1item2"]) under rule 3 and (company, DEF 14A, []) under rule 4.
C19_FormRuleTargets ==
    (Selected /\ FirstRule(analysis) \in {2, 3, 4}) =>
        LET n == FirstRule(analysis)
            form == CASE n = 2 -> "10-K" [] n = 3 -> "10-Q" [] n = 4 -> "DEF 14A"
            secs == CASE n = 2 -> <<"1A">> [] n = 3 -> <<"part1item2">>
                      [] n = 4 -> <<>>
        IN  strategy.targets =
                [i \in 1..Min(2, NCompanies(analysis)) |->
                    Target(CompanyAt(analysis, i), form, secs)]

C19_Witness ==
    /\ Selected
    /\ analysis.tickers = <<"AAPL">>
    /\ analysis.document_types = <<"10-K">>
    /\ analysis.keywords = <<"Risk">>
    /\ strategy.targets = <<Target("AAPL", "10-K", <<"1A">>)>>

\* The companies line 64 lets the selector choose from.
CompanySource(a) ==
    IF a.tickers # <<>> THEN Range(Take(a.tickers, 2))
    ELSE Range(get_default_companies(a))

\* C28: for every query the selector returns a strategy and raises nothing;
\* the ticker of every target is one of the first two tickers of the query
\* or, when the query names none, a default company, and the default
\* company list is never empty; with allow_default there is at least one
\* target.
C28_TargetsFromCompanySource ==
    Selected =>
        /\ rpc # "raised"
        /\ strategy.reason \in
              {"explicit_form_or_keyword", "query_type", "default", "no_match"}
        /\ get_default_companies(analysis) # <<>>
        /\ \A k \in 1..Len(strategy.targets) :
              strategy.targets[k].ticker \in CompanySource(analysis)
        /\ allow_default => strategy.targets # <<>>

C28_Witness ==
    /\ Selected
    /\ allow_default
    /\ analysis.tickers = <<>>
    /\ analysis.document_types = <<>>
    /\ analysis.keywords = <<"financial", "growth">>
    /\ analysis.query_type = "thematic_analysis"
    /\ strategy.reason = "default"
    /\ strategy.targets = <<Target("JPM", "10-K", <<"1A">>)>>

\* ========================================================= targeted fetcher
\* Program constants of data_retriever.py.
DefaultMaxTargets == 6
InsiderContentCap == 1200
MinSectionLen == 200
SectionCap == 1500
DescriptionCap == 180
DateLen == 10

\* len() of the strings the model names.
LenOf(x) ==
    CASE x \in {"3", "4", "5"} -> 1
      [] x \in {"8-K", "JPM", "JNJ"} -> 3
      [] x \in {"10-K", "10-k", "10-Q", "AAPL", "MSFT", "TSLA"} -> 4
      [] x = "DEF 14A" -> 7
      [] x = "Jane Roe" -> 8
      [] x = "Apple Inc." -> 10
      [] x = "Unknown Person" -> 14
      [] x = "Unknown Company" -> 15
      [] x = "a name of 1300 characters" -> 1300
      [] x = "a name of 2000 characters" -> 2000

RECURSIVE NumDigits(_)
NumDigits(n) == IF n < 10 THEN 1 ELSE 1 + NumDigits(n \div 10)

\* len(f"{n:,.0f}") for a whole number n >= 0.
GroupedLen(n) == NumDigits(n) + (NumDigits(n) - 1) \div 3

\* len(f"{px:.2f}") for a whole number px >= 0.
MoneyLen(px) == NumDigits(px) + 3

\* confidence_score is kept in tenths (1.0 -> 10, 0.8 -> 8).

\* ---- the try / except frame of the three fetchers
\* What a fetcher call ends with: chunks is the list handed back, raised
\* says that an exception leaves the call, absorbed that the except clause
\* caught one.
Outcome(raised, absorbed, cs) ==
    [raised |-> raised, absorbed |-> absorbed, chunks |-> cs]

\* A return statement of the try block.
Returned(cs) == Outcome(FALSE, FALSE, cs)

\* An exception raised inside the try block; chunks is still empty wherever
\* the block can raise.
Raised == Outcome(TRUE, FALSE, <<>>)

\* The fetchers without their except clause: the exception leaves the call.
ExceptReraise(o) == o

\* except Exception: return chunks (lines 160-161, 197-198, 230-231).
Except(o) == IF o.raised THEN Outcome(FALSE, TRUE, o.chunks) ELSE o

\* ---- insider class, lines 115-161
\* One nonDerivativeTable line; numeric is FALSE when float() rejects it.
Tx(shares, price, code, numeric) ==
    [shares |-> shares, price |-> price, code |-> code, numeric |-> numeric]

\* dict.get('name', 'Unknown Person') with reportingOwner possibly missing.
PersonOf(filing) ==
    IF filing.reportingOwner = "absent" THEN "Unknown Person"
    ELSE filing.reportingOwner

\* The lines of line 135-145 for nd[:2], skipping what float() rejects.
TxLines(filing) == SelectSeq(Take(filing.nd, 2), LAMBDA t : t.numeric)

\* len of f"- {act} {sh:,.0f} @ ${px:.2f} (${val:,.0f})"; both labels have
\* 8 characters.
TxLineLen(t) ==
    19 + GroupedLen(t.shares) + MoneyLen(t.price) + GroupedLen(t.shares * t.price)

RECURSIVE TxTotal(_)
\* total += sh * px over the lines kept.
TxTotal(txs) ==
    IF txs = <<>> THEN 0
    ELSE Head(txs).shares * Head(txs).price + TxTotal(Tail(txs))

RECURSIVE TxBodyLen(_)
\* What the transaction lines add to the joined text, newlines included.
TxBodyLen(txs) ==
    IF txs = <<>> THEN 0 ELSE 1 + TxLineLen(Head(txs)) + TxBodyLen(Tail(txs))

\* len("\n".join(lines)) of lines 132-147.
InsiderContentLen(ticker, filing) ==
    LET txs == TxLines(filing)
        total == TxTotal(txs)
        header == 43 + LenOf(ticker) + LenOf(PersonOf(filing))
                     + Min(DateLen, filing.filedAt_len)
        body == TxBodyLen(txs)
        footer == IF total > 0 THEN 16 + GroupedLen(total) ELSE 0
    IN  header + body + footer

\* Line 144: the label of a transaction line.
act(code) == IF code = "A" THEN "Acquired" ELSE "Disposed"

\* The transaction lines of content: the label written by line 145 and the
\* acquiredDisposedCode it was derived from.
ActLines(filing) ==
    LET txs == TxLines(filing)
    IN  [k \in 1..Len(txs) |-> [act |-> act(txs[k].code), code |-> txs[k].code]]

InsiderChunk(ticker, form_type, filing) ==
    [content_len |-> Min(InsiderContentCap, InsiderContentLen(ticker, filing)),
     acts |-> ActLines(filing),
     ticker |-> ticker,
     filing_type |-> form_type,
     section |-> <<"Insider Filing", PersonOf(filing)>>,
     chunk_id |-> <<ticker, form_type, "targeted">>,
     confidence_score |-> 10]

\* Lines 119-159, the try block: the request or r.json() raises, or a field
\* of the wrong type makes a .get() or a slice raise.
insider_try(ticker, form_type, r) ==
    IF r.kind \in {"exception", "malformed"} THEN Raised
    ELSE IF r.kind # "ok" THEN Returned(<<>>)
    ELSE IF r.transactions = <<>> THEN Returned(<<>>)
    ELSE IF InsiderContentLen(ticker, r.transactions[1]) > 0
    THEN Returned(<<InsiderChunk(ticker, form_type, r.transactions[1])>>)
    ELSE Returned(<<>>)

fetch_insider_targeted(ticker, form_type, r) ==
    Except(insider_try(ticker, form_type, r))

InsiderFiling(owner, filedAt_len, nd) ==
    [reportingOwner |-> owner, filedAt_len |-> filedAt_len, nd |-> nd]

\* What the insider-trading API can answer: an exception (timeout, bad
\* JSON), a non-200 status, a payload with fields of the wrong type, no
\* transactions, or a most recent filing; a line can carry a code that is
\* neither 'A' nor 'D'.
InsiderResponses ==
    { [kind |-> "exception", transactions |-> <<>>],
      [kind |-> "status", transactions |-> <<>>],
      [kind |-> "malformed", transactions |-> <<>>],
      [kind |-> "ok", transactions |-> <<>>],
      [kind |-> "ok", transactions |->
          <<InsiderFiling("absent", 0, <<Tx(0, 0, "M", TRUE)>>)>>],
      [kind |-> "ok", transactions |->
          <<InsiderFiling("a name of 1300 characters", 25,
                          <<Tx(100, 5, "A", TRUE), Tx(0, 0, "D", FALSE),
                            Tx(2000, 1500, "D", TRUE)>>)>>] }

\* ---- structured class, lines 163-198
StructuredChunk(ticker, form_type, sec, text_len) ==
    [content_len |-> IF text_len > SectionCap THEN SectionCap + 3 ELSE text_len,
     ticker |-> ticker,
     filing_type |-> form_type,
     section |-> <<"Item", sec>>,
     chunk_id |-> <<ticker, form_type, sec, "targeted">>,
     confidence_score |-> 10]

\* The try block without the length test of line 183.
structured_try_keep_short(ticker, form_type, sections, r) ==
    IF r.search = "exception" THEN Raised
    ELSE IF r.search # "ok" THEN Returned(<<>>)
    ELSE IF r.filings = <<>> THEN Returned(<<>>)
    ELSE IF ~r.filings[1].link \/ sections = <<>> THEN Returned(<<>>)
    ELSE IF r.extract = "exception" THEN Raised
    ELSE IF r.extract # "ok" THEN Returned(<<>>)
    ELSE Returned(<<StructuredChunk(ticker, form_type, sections[1], r.text_len)>>)

\* Lines 167-196, the try block: either request can raise.
structured_try(ticker, form_type, sections, r) ==
    IF r.search = "exception" THEN Raised
    ELSE IF r.search # "ok" THEN Returned(<<>>)
    ELSE IF r.filings = <<>> THEN Returned(<<>>)
    ELSE IF ~r.filings[1].link \/ sections = <<>> THEN Returned(<<>>)
    ELSE IF r.extract = "exception" THEN Raised
    ELSE IF r.extract # "ok" THEN Returned(<<>>)
    ELSE IF r.text_len < MinSectionLen THEN Returned(<<>>)
    ELSE Returned(<<StructuredChunk(ticker, form_type, sections[1], r.text_len)>>)

fetch_structured_targeted(ticker, form_type, sections, r) ==
    Except(structured_try(ticker, form_type, sections, r))

StructuredResponse(search, filings, extract, text_len) ==
    [search |-> search, filings |-> filings, extract |-> extract,
     text_len |-> text_len]

\* Lengths of the stripped text the extractor can return.
SectionTextLens == {0, 199, 200, 1500, 1501}

\* What the filing search and the section extractor can answer.
StructuredResponses ==
    { StructuredResponse("exception", <<>>, "none", 0),
      StructuredResponse("status", <<>>, "none", 0),
      StructuredResponse("ok", <<>>, "none", 0),
      StructuredResponse("ok", <<[link |-> FALSE]>>, "none", 0),
      StructuredResponse("ok", <<[link |-> TRUE]>>, "exception", 0),
      StructuredResponse("ok", <<[link |-> TRUE]>>, "status", 0) }
    \cup { StructuredResponse("ok", <<[link |-> TRUE]>>, "ok", n) :
              n \in SectionTextLens }

\* ---- general class, lines 200-231
section_name(form_type) ==
    CASE form_type = "8-K" -> <<"Material Event">>
      [] form_type = "DEF 14A" -> <<"Proxy Statement">>
      [] form_type = "3" -> <<"Initial Statement of Ownership">>
      [] form_type = "4" -> <<"Statement of Changes in Ownership">>
      [] form_type = "5" -> <<"Annual Statement of Ownership">>
      [] OTHER -> <<form_type, "Filing">>

\* len of f.get('description', f'{form_type} filing')[:180]
DescLen(form_type, f) ==
    IF f.description = "absent" THEN Min(DescriptionCap, LenOf(form_type) + 7)
    ELSE Min(DescriptionCap, f.description_len)

CompanyOf(f) == IF f.companyName = "absent" THEN "Unknown Company" ELSE f.companyName

\* len of the f-string of lines 214-218.
GeneralContentLen(form_type, f) ==
    96 + LenOf(form_type) + LenOf(CompanyOf(f)) + Min(DateLen, f.filedAt_len)
       + DescLen(form_type, f)

GeneralChunk(ticker, form_type, f) ==
    [content_len |-> GeneralContentLen(form_type, f),
     ticker |-> ticker,
     filing_type |-> form_type,
     section |-> section_name(form_type),
     chunk_id |-> <<ticker, form_type, "targeted">>,
     confidence_score |-> 8]

\* Lines 204-229, the try block: the request can raise, and a description
\* of None makes the slice of line 213 raise.
general_try(ticker, form_type, r) ==
    IF r.search = "exception" THEN Raised
    ELSE IF r.search # "ok" THEN Returned(<<>>)
    ELSE IF r.filings = <<>> THEN Returned(<<>>)
    ELSE IF r.filings[1].description = "null" THEN Raised
    ELSE Returned(<<GeneralChunk(ticker, form_type, r.filings[1])>>)

fetch_general_targeted(ticker, form_type, r) ==
    Except(general_try(ticker, form_type, r))

\* description is "absent", "null" (None) or "text" of description_len
\* characters.
GeneralFiling(company, filedAt_len, description, description_len) ==
    [companyName |-> company, filedAt_len |-> filedAt_len,
     description |-> description, description_len |-> description_len]

GeneralResponses ==
    { [search |-> "exception", filings |-> <<>>],
      [search |-> "status", filings |-> <<>>],
      [search |-> "ok", filings |-> <<>>],
      [search |-> "ok", filings |-> <<GeneralFiling("absent", 0, "absent", 0)>>],
      [search |-> "ok", filings |-> <<GeneralFiling("Apple Inc.", 25, "null", 0)>>],
      [search |-> "ok", filings |-> <<GeneralFiling("Apple Inc.", 25, "text", 500)>>],
      [search |-> "ok", filings |->
          <<GeneralFiling("a name of 2000 characters", 25, "text", 40)>>] }

\* ======================================================= fallback controller
\* Line 41 without the [:max_targets].
CappedAll == strategy.targets

\* strategy['targets'][:max_targets]
Capped == Take(strategy.targets, max_targets)

\* The loop fetching a target again while its fetch gave no record.
AdvanceUnlessEmpty(i, o) == IF o.raised \/ o.chunks = <<>> THEN i ELSE i + 1

\* The for statements of lines 41 and 238 go on to the next item whatever
\* the fetch returned; an exception leaves the loop where it is.
Advance(i, o) == IF o.raised THEN i ELSE i + 1

LogEntry(tier, fetcher, ticker, form, sections, o) ==
    [tier |-> tier, fetcher |-> fetcher, ticker |-> ticker, filing_type |-> form,
     sections |-> sections, absorbed |-> o.absorbed, returned |-> o.chunks]

\* Lines 52-56 with the probe forgotten: an empty targeted tier returns [].
AfterTargetedNoProbe(cs, fb) == IF cs # <<>> THEN "return" ELSE "empty"

\* Lines 52-56 with the tests in the wrong order: the probe runs whenever
\* the fallback tier is general_small.
AfterTargetedProbeFirst(cs, fb) ==
    IF fb = "general_small" THEN "probe"
    ELSE IF cs # <<>> THEN "return"
    ELSE "empty"

\* Lines 52-56: what follows the targeted loop.
AfterTargeted(cs, fb) ==
    IF cs # <<>> THEN "return"
    ELSE IF fb = "general_small" THEN "probe"
    ELSE "empty"

\* Line 235 without the [:1].
ProbeCandsAll(a) ==
    IF a.tickers # <<>> THEN a.tickers ELSE get_default_companies(a)

\* Line 235.
ProbeCands(a) ==
    Take(IF a.tickers # <<>> THEN a.tickers ELSE get_default_companies(a), 1)

\* Line 236.
ProbeForm(a) ==
    IF a.document_types # <<>> THEN a.document_types[1] ELSE "10-K"

\* Line 240.
ProbeSections(form) == IF form = "10-K" THEN <<"1A">> ELSE <<"part1item2">>

\* The queries the retrieval runs are checked on.
RetAnalyses ==
    {a \in Analyses :
        /\ Len(a.document_types) <= 1 \/ a.document_types = <<"5", "3", "4">>
        /\ a.keywords \in {<<>>, <<"insider">>}
        /\ a.query_type \in {"single_ticker", "multi_ticker_comparison"}}

RetInit ==
    /\ CiteIdle
    /\ QaIdle
    /\ analysis \in RetAnalyses
    /\ allow_default \in BOOLEAN
    /\ fallback \in {"general_small", "none"}
    /\ max_targets \in {2, DefaultMaxTargets}
    /\ strategy = NoStrategy
    /\ rpc = "plan"
    /\ ti = 1
    /\ chunks = <<>>
    /\ result = <<>>
    /\ fetch_log = <<>>

\* One pass of the loop of lines 41-50 for a target of form 3, 4 or 5.
FetchInsider ==
    /\ rpc = "targeted"
    /\ ti <= Len(Capped)
    /\ Capped[ti].filing_type \in {"3", "4", "5"}
    /\ \E r \in InsiderResponses :
          LET t == Capped[ti]
              o == fetch_insider_targeted(t.ticker, t.filing_type, r)
          IN  /\ chunks' = chunks \o o.chunks
              /\ fetch_log' = Append(fetch_log,
                    LogEntry("targeted", "insider", t.ticker, t.filing_type, <<>>, o))
              /\ rpc' = IF o.raised THEN "raised" ELSE rpc
              /\ ti' = Advance(ti, o)
    /\ UNCHANGED <<fallback, max_targets, result, analysis, allow_default,
                   strategy, citeVars, qaVars>>

\* One pass of the loop for a 10-K or 10-Q target; only sections[:1] is
\* handed on.
FetchStructured ==
    /\ rpc = "targeted"
    /\ ti <= Len(Capped)
    /\ Capped[ti].filing_type \in {"10-K", "10-Q"}
    /\ \E r \in StructuredResponses :
          LET t == Capped[ti]
              sections == Take(t.sections, 1)
              o == fetch_structured_targeted(t.ticker, t.filing_type, sections, r)
          IN  /\ chunks' = chunks \o o.chunks
              /\ fetch_log' = Append(fetch_log,
                    LogEntry("targeted", "structured", t.ticker, t.filing_type, sections, o))
              /\ rpc' = IF o.raised THEN "raised" ELSE rpc
              /\ ti' = Advance(ti, o)
    /\ UNCHANGED <<fallback, max_targets, result, analysis, allow_default,
                   strategy, citeVars, qaVars>>

\* One pass of the loop for a target of any other form.
FetchGeneral ==
    /\ rpc = "targeted"
    /\ ti <= Len(Capped)
    /\ Capped[ti].filing_type \notin {"3", "4", "5", "10-K", "10-Q"}
    /\ \E r \in GeneralResponses :
          LET t == Capped[ti]
              o == fetch_general_targeted(t.ticker, t.filing_type, r)
          IN  /\ chunks' = chunks \o o.chunks
              /\ fetch_log' = Append(fetch_log,
                    LogEntry("targeted", "general", t.ticker, t.filing_type, <<>>, o))
              /\ rpc' = IF o.raised THEN "raised" ELSE rpc
              /\ ti' = Advance(ti, o)
    /\ UNCHANGED <<fallback, max_targets, result, analysis, allow_default,
                   strategy, citeVars, qaVars>>

\* Lines 52-53.
ReturnTargeted ==
    /\ rpc = "targeted"
    /\ ti > Len(Capped)
    /\ AfterTargeted(chunks, fallback) = "return"
    /\ result' = chunks
    /\ rpc' = "done"
    /\ UNCHANGED <<analysis, allow_default, strategy, fallback, max_targets, ti,
                   chunks, fetch_log, citeVars, qaVars>>

\* Lines 54-55: _fetch_general_small_probe is entered, with its own empty
\* chunks list.
EnterProbe ==
    /\ rpc = "targeted"
    /\ ti > Len(Capped)
    /\ AfterTargeted(chunks, fallback) = "probe"
    /\ rpc' = "probe"
    /\ ti' = 1
    /\ chunks' = <<>>
    /\ UNCHANGED <<analysis, allow_default, strategy, fallback, max_targets,
                   result, fetch_log, citeVars, qaVars>>

\* Line 56.
ReturnEmpty ==
    /\ rpc = "targeted"
    /\ ti > Len(Capped)
    /\ AfterTargeted(chunks, fallback) = "empty"
    /\ result' = <<>>
    /\ rpc' = "done"
    /\ UNCHANGED <<analysis, allow_default, strategy, fallback, max_targets, ti,
                   chunks, fetch_log, citeVars, qaVars>>

\* Lines 238-241: the probe fetches a 10-K or 10-Q section.
ProbeStructured ==
    /\ rpc = "probe"
    /\ ti <= Len(ProbeCands(analysis))
    /\ ProbeForm(analysis) \in {"10-K", "10-Q"}
    /\ \E r \in StructuredResponses :
          LET c == ProbeCands(analysis)[ti]
              form == ProbeForm(analysis)
              sec == ProbeSections(form)
              o == fetch_structured_targeted(c, form, sec, r)
          IN  /\ chunks' = chunks \o o.chunks
              /\ fetch_log' = Append(fetch_log,
                    LogEntry("probe", "structured", c, form, sec, o))
              /\ rpc' = IF o.raised THEN "raised" ELSE rpc
              /\ ti' = Advance(ti, o)
    /\ UNCHANGED <<fallback, max_targets, result, analysis, allow_default,
                   strategy, citeVars, qaVars>>

\* Lines 242-243: the probe searches any other form as a general filing.
ProbeGeneral ==
    /\ rpc = "probe"
    /\ ti <= Len(ProbeCands(analysis))
    /\ ProbeForm(analysis) \notin {"10-K", "10-Q"}
    /\ \E r \in GeneralResponses :
          LET c == ProbeCands(analysis)[ti]
              form == ProbeForm(analysis)
              o == fetch_general_targeted(c, form, r)
          IN  /\ chunks' = chunks \o o.chunks
              /\ fetch_log' = Append(fetch_log,
                    LogEntry("probe", "general", c, form, <<>>, o))
              /\ rpc' = IF o.raised THEN "raised" ELSE rpc
              /\ ti' = Advance(ti, o)
    /\ UNCHANGED <<fallback, max_targets, result, analysis, allow_default,
                   strategy, citeVars, qaVars>>

\* Line 244.
ProbeReturn ==
    /\ rpc = "probe"
    /\ ti > Len(ProbeCands(analysis))
    /\ result' = Take(chunks, 2)
    /\ rpc' = "done"
    /\ UNCHANGED <<analysis, allow_default, strategy, fallback, max_targets, ti,
                   chunks, fetch_log, citeVars, qaVars>>

RetNext ==
    \/ Plan
    \/ FetchInsider
    \/ FetchStructured
    \/ FetchGeneral
    \/ ReturnTargeted
    \/ EnterProbe
    \/ ReturnEmpty
    \/ ProbeStructured
    \/ ProbeGeneral
    \/ ProbeReturn

\* fetch_targeted_filings is one sequential call: each step follows the
\* previous one, and every external request carries a timeout.
SpecRetrieve == RetInit /\ [][RetNext]_vars /\ WF_vars(RetNext)

\* ------------------------------------- properties of the retrieval call
\* The fetcher calls of one tier, in call order.
LogOf(tier) == SelectSeq(fetch_log, LAMBDA e : e.tier = tier)

\* The concatenation of what the targeted fetches returned.
TargetedConcat ==
    LET tl == LogOf("targeted")
    IN  Flatten([k \in 1..Len(tl) |-> tl[k].returned])

AllFetchesEmpty == \A k \in 1..Len(fetch_log) : fetch_log[k].returned = <<>>

\* C5: no record a fetcher returns, for a target of any class, has content
\* of length 0 or of more than 1500 characters.
C5_ContentBounded ==
    \A k \in 1..Len(fetch_log) :
        \A j \in 1..Len(fetch_log[k].returned) :
            /\ fetch_log[k].returned[j].content_len > 0
            /\ fetch_log[k].returned[j].content_len <= 1500

PhaseRank ==
    CASE rpc = "plan" -> 0 [] rpc = "targeted" -> 1 [] rpc = "probe" -> 2
      [] rpc = "done" -> 3 [] OTHER -> 0

\* What a finished call with only empty fetches and fallback general_small
\* has done: each capped target fetched once, in order, then one probe; the
\* value returned is the empty sequence.
C9_EmptyRunShape ==
    (rpc = "done" /\ fallback = "general_small" /\ AllFetchesEmpty) =>
        /\ result = <<>>
        /\ Len(LogOf("probe")) = 1
        /\ Len(fetch_log) = Len(Capped) + 1
        /\ fetch_log[Len(fetch_log)].tier = "probe"
        /\ \A k \in 1..Len(Capped) :
              /\ fetch_log[k].tier = "targeted"
              /\ fetch_log[k].ticker = Capped[k].ticker
              /\ fetch_log[k].filing_type = Capped[k].filing_type

\* C9: the retrieve call terminates; when every fetch came back empty and
\* the fallback tier is general_small it returns the empty sequence after the
\* targeted tier and exactly one probe; no step goes back to an earlier
\* tier.
C9_FallbackTerminates ==
    /\ <>(rpc = "done")
    /\ []C9_EmptyRunShape
    /\ [][PhaseRank' >= PhaseRank]_vars

C9_Witness ==
    /\ rpc = "done"
    /\ fallback = "general_small"
    /\ AllFetchesEmpty
    /\ Len(LogOf("targeted")) = 6
    /\ Len(LogOf("probe")) = 1
    /\ result = <<>>

\* C10: a non-empty targeted tier is returned as it is, the concatenation of
\* the per-target results, and no probe fetch is made; the probe is entered
\* exactly when the targeted concatenation is empty and the fallback tier is
\* general_small; otherwise an empty targeted tier returns the empty
\* sequence.
C10_ProbeOnlyWhenEmpty ==
    /\ (rpc = "probe" \/ LogOf("probe") # <<>>) =>
          (TargetedConcat = <<>> /\ fallback = "general_small")
    /\ rpc = "done" =>
          /\ TargetedConcat # <<>> =>
                (result = TargetedConcat /\ LogOf("probe") = <<>>)
          /\ (TargetedConcat = <<>> /\ fallback = "general_small") =>
                LogOf("probe") # <<>>
          /\ (TargetedConcat = <<>> /\ fallback # "general_small") =>
                (result = <<>> /\ LogOf("probe") = <<>>)

C10_Witness ==
    /\ rpc = "done"
    /\ fallback = "general_small"
    /\ Len(LogOf("targeted")) = 2
    /\ fetch_log[1].returned = <<>>
    /\ fetch_log[2].returned # <<>>
    /\ result = fetch_log[2].returned
    /\ LogOf("probe") = <<>>

\* C11: the probe makes at most one fetcher call, a structured or a general
\* one, for the query's first ticker (the default company when it names
\* none) and its first requested document type (10-K when it requests
\* none); a call that went through the probe made exactly one such fetch and
\* returns what it returned, at most 2 records.
C11_ProbeSinglePair ==
    LET pl == LogOf("probe")
    IN  /\ Len(pl) <= 1
        /\ \A k \in 1..Len(pl) :
              /\ pl[k].ticker = CompanyAt(analysis, 1)
              /\ pl[k].filing_type =
                    (IF analysis.document_types = <<>> THEN "10-K"
                     ELSE analysis.document_types[1])
              /\ pl[k].fetcher \in {"structured", "general"}
        /\ (rpc = "done" /\ TargetedConcat = <<>> /\ fallback = "general_small") =>
              /\ Len(pl) = 1
              /\ result = pl[1].returned
              /\ Len(result) <= 2

C11_Witness ==
    /\ rpc = "done"
    /\ Len(analysis.tickers) >= 2
    /\ analysis.document_types = <<"8-K">>
    /\ Len(LogOf("probe")) = 1
    /\ LogOf("probe")[1].ticker = analysis.tickers[1]
    /\ LogOf("probe")[1].filing_type = "8-K"
    /\ LogOf("probe")[1].returned # <<>>
    /\ result = LogOf("probe")[1].returned

\* C14: no fetcher call lets an exception out, whatever the external service
\* answers (an exception, a status other than 200, a payload with missing or
\* malformed fields): a call whose try block raised hands back the empty
\* sequence, and every capped target is fetched whatever the targets before
\* it met.
C14_FetchNeverRaises ==
    /\ rpc # "raised"
    /\ \A k \in 1..Len(fetch_log) :
          fetch_log[k].absorbed => fetch_log[k].returned = <<>>
    /\ rpc \in {"probe", "done"} =>
          \A k \in 1..Len(Capped) :
              /\ k <= Len(fetch_log)
              /\ fetch_log[k].tier = "targeted"
              /\ fetch_log[k].ticker = Capped[k].ticker
              /\ fetch_log[k].filing_type = Capped[k].filing_type

C14_Witness ==
    /\ rpc = "done"
    /\ Len(fetch_log) = 2
    /\ fetch_log[1].absorbed
    /\ fetch_log[1].returned = <<>>
    /\ fetch_log[2].tier = "targeted"
    /\ fetch_log[2].returned # <<>>
    /\ result = fetch_log[2].returned

\* C17: a retrieve call makes at most max_targets targeted fetches; they are
\* the fetches of the first max_targets targets of the plan, in the order of
\* the plan, whichever rule made the plan.
C17_TargetCap ==
    LET tl == LogOf("targeted")
    IN  /\ Len(tl) <= max_targets
        /\ Len(tl) <= Len(strategy.targets)
        /\ \A k \in 1..Len(tl) :
              /\ tl[k].ticker = strategy.targets[k].ticker
              /\ tl[k].filing_type = strategy.targets[k].filing_type
        /\ rpc \in {"probe", "done"} =>
              Len(tl) = Min(max_targets, Len(strategy.targets))

C17_Witness ==
    /\ rpc = "done"
    /\ max_targets = 2
    /\ Len(strategy.targets) = 6
    /\ Len(LogOf("targeted")) = 2
    /\ LogOf("targeted")[2].filing_type = strategy.targets[2].filing_type

\* The records the insider fetcher returned so far.
InsiderRecords ==
    LET il == SelectSeq(fetch_log, LAMBDA e : e.fetcher = "insider")
    IN  Flatten([k \in 1..Len(il) |-> il[k].returned])

\* C21: in an insider record every transaction line is labelled Acquired
\* only for code 'A' and Disposed only for code 'D'; a line with any other
\* code shows that code verbatim and neither label.
C21_LabelFollowsCode ==
    \A k \in 1..Len(InsiderRecords) :
        \A j \in 1..Len(InsiderRecords[k].acts) :
            LET l == InsiderRecords[k].acts[j]
            IN  /\ l.act = "Acquired" => l.code = "A"
                /\ l.act = "Disposed" => l.code = "D"
                /\ l.code \notin {"A", "D"} => l.act = l.code

\* C23: the records one retrieval call returns have pairwise distinct ids.
C23_DistinctIds ==
    rpc = "done" =>
        \A i, j \in 1..Len(result) :
            i # j => result[i].chunk_id # result[j].chunk_id

\* The fetcher that line 44-49 picks for a form.
ClassOf(form) ==
    IF form \in {"3", "4", "5"} THEN "insider"
    ELSE IF form \in {"10-K", "10-Q"} THEN "structured"
    ELSE "general"

\* C25: the targeted tier calls the fetcher once for each capped target, in
\* target order, and keeps the records in that order; a target whose fetch
\* failed or gave nothing is not fetched again; the call moves from the
\* targeted tier to the probe at most once and never back.
C25_OncePerTargetInOrder ==
    LET tl == LogOf("targeted")
    IN  /\ Len(tl) <= Len(Capped)
        /\ \A k \in 1..Len(tl) :
              /\ tl[k].ticker = Capped[k].ticker
              /\ tl[k].filing_type = Capped[k].filing_type
              /\ tl[k].fetcher = ClassOf(Capped[k].filing_type)
        /\ rpc = "targeted" =>
              /\ Len(tl) = ti - 1
              /\ chunks = TargetedConcat
        /\ rpc \in {"probe", "done"} => Len(tl) = Len(Capped)
        /\ (rpc = "done" /\ TargetedConcat # <<>>) => result = TargetedConcat
        /\ \A i, j \in 1..Len(fetch_log) :
              (i < j /\ fetch_log[i].tier = "probe") => fetch_log[j].tier = "probe"
        /\ Len(LogOf("probe")) <= 1

\* A finished call of six targets whose first target failed, whose second
\* came back empty and whose third and fourth gave a record each.
C25_Witness ==
    /\ rpc = "done"
    /\ Len(LogOf("targeted")) = 6
    /\ LogOf("probe") = <<>>
    /\ fetch_log[1].absorbed
    /\ fetch_log[2].returned = <<>> /\ ~fetch_log[2].absorbed
    /\ fetch_log[3].returned # <<>>
    /\ fetch_log[4].returned # <<>>
    /\ fetch_log[5].returned = <<>>
    /\ fetch_log[6].returned = <<>>
    /\ result = fetch_log[3].returned \o fetch_log[4].returned
    /\ result[1].ticker # result[2].ticker

\* ------------------------------------------- one structured target
\* The loop of lines 41-50 run on a single 10-K or 10-Q target with any
\* section list, empty or with several sections, and no fallback tier.
StructuredTargets ==
    {Target(c, f, secs) :
        c \in {"AAPL", "MSFT"}, f \in {"10-K", "10-Q"},
        secs \in {<<>>, <<"1A">>, <<"1A", "7">>, <<"7", "1A">>, <<"part1item2">>}}

StructuredInit ==
    /\ CiteIdle
    /\ QaIdle
    /\ analysis = [tickers |-> <<>>, document_types |-> <<>>, keywords |-> <<>>,
                   query_type |-> "single_ticker"]
    /\ allow_default = FALSE
    /\ \E t \in StructuredTargets :
          strategy = [description |-> "", reason |-> "", targets |-> <<t>>]
    /\ rpc = "targeted"
    /\ fallback = "none"
    /\ max_targets = DefaultMaxTargets
    /\ ti = 1
    /\ chunks = <<>>
    /\ result = <<>>
    /\ fetch_log = <<>>

StructuredNext ==
    \/ FetchStructured
    \/ ReturnTargeted
    \/ ReturnEmpty

SpecStructured == StructuredInit /\ [][StructuredNext]_vars

\* What the structured fetcher gives for target t when the services answer r.
StructuredYield(t, r) ==
    fetch_structured_targeted(t.ticker, t.filing_type, Take(t.sections, 1), r).chunks

\* C24: a 10-K or 10-Q target yields at most one record, and that record is
\* of the first section of the target; it yields none when the section list
\* is empty, when the filing has no document link or when the extracted
\* text has fewer than 200 characters.
C24_FirstSectionOnly ==
    \A k \in 1..Len(fetch_log) :
        LET t == Capped[k]
            e == fetch_log[k]
        IN  /\ e.sections = Take(t.sections, 1)
            /\ Len(e.returned) <= 1
            /\ e.returned # <<>> =>
                  /\ t.sections # <<>>
                  /\ e.returned[1].section = <<"Item", t.sections[1]>>
                  /\ e.returned[1].content_len >= MinSectionLen
            /\ \A r \in StructuredResponses :
                  LET cs == StructuredYield(t, r)
                  IN  /\ Len(cs) <= 1
                      /\ cs # <<>> =>
                            /\ t.sections # <<>>
                            /\ cs[1].section = <<"Item", t.sections[1]>>
                            /\ cs[1].chunk_id =
                                  <<t.ticker, t.filing_type, t.sections[1], "targeted">>
                      /\ (\/ t.sections = <<>>
                          \/ r.filings = <<>>
                          \/ ~r.filings[1].link
                          \/ r.text_len < MinSectionLen) => cs = <<>>

C24_Witness ==
    /\ rpc = "done"
    /\ Capped[1].sections = <<"7", "1A">>
    /\ Len(fetch_log) = 1
    /\ Len(result) = 1
    /\ result[1].section = <<"Item", "7">>

\* ================================================== the question session
\* answer_question called again and again on one EnhancedSECQASystem:
\* document_cache and missing_companies live as long as the system does.
MaxQuestions == 2

\* Program constant of qa_system.py.
TopK == 3

RECURSIVE Join(_, _)
\* sep.join(parts), as tokens.
Join(parts, sep) ==
    IF parts = <<>> THEN <<>>
    ELSE IF Len(parts) = 1 THEN <<parts[1]>>
    ELSE <<parts[1], sep>> \o Join(Tail(parts), sep)

\* ---- step 2, lines 168-195
\* t.upper() for the tickers a query can carry.
UpperTicker(t) ==
    CASE t = "aapl" -> "AAPL" [] t = "msft" -> "MSFT" [] OTHER -> t

\* The tickers company_resolver.resolve knows.
Resolvable == {"AAPL", "MSFT", "JPM"}

validate_tickers(ts) ==
    SelectSeq([i \in 1..Len(ts) |-> UpperTicker(ts[i])],
              LAMBDA t : t \in Resolvable)

\* Line 194.
fallback_pool == <<"AAPL", "MSFT", "JPM", "GOOGL", "AMZN", "META", "NVDA">>

determine_companies(a) ==
    LET user == validate_tickers(a.tickers)
        suggested == validate_tickers(a.suggested_tickers)
    IN  IF user # <<>> THEN Take(user, TopK)
        ELSE IF suggested # <<>> THEN Take(suggested, TopK)
        ELSE Take(validate_tickers(fallback_pool), TopK)

\* ---- step 3, lines 198-224
\* period.isdigit() and len(period) == 4
IsYear(period) == period \in {"2023", "2024"}

\* Lines 202-206: the first 4-digit period gives f"{period}-01-01".
DateFrom(time_periods) ==
    LET years == SelectSeq(time_periods, IsYear)
    IN  IF years = <<>> THEN <<>> ELSE <<years[1], "-01-01">>

\* any(k in keywords for k in terms)
AnyIn(terms, kw) == \E t \in terms : In(t, kw)

\* Lines 227-241.
get_default_document_types(a) ==
    LET kw == KwOf(a)
    IN  IF AnyIn({"insider", "trading", "purchase", "sale"}, kw)
        THEN <<"4", "3", "5">>
        ELSE IF AnyIn({"compensation", "executive", "salary", "pay"}, kw)
        THEN <<"DEF 14A">>
        ELSE IF AnyIn({"acquisition", "merger", "material", "event"}, kw)
        THEN <<"8-K">>
        ELSE IF AnyIn({"risk", "factor", "business"}, kw) THEN <<"10-K">>
        ELSE IF AnyIn({"quarterly", "q1", "q2", "q3", "q4"}, kw) THEN <<"10-Q">>
        ELSE <<"10-K", "10-Q">>

\* Line 208.
EffectiveDocTypes(a) ==
    IF a.document_types # <<>> THEN a.document_types
    ELSE get_default_document_types(a)

\* Line 211: f"{company}_{'-'.join(document_types)}_{date_from or 'recent'}"
cache_key(company, doc_types, date) ==
    <<company, "_">> \o Join(doc_types, "-") \o <<"_">>
        \o (IF date = <<>> THEN <<"recent">> ELSE date)

\* Line 212 with the test lost: every lookup is a miss.
CacheHitNever(cache, key) == FALSE

\* Line 212.
CacheHit(cache, key) == key \in DOMAIN cache

\* Lines 218-219 without the test of line 218.
StoreAlways(cache, key, cs) ==
    [k \in DOMAIN cache \cup {key} |-> IF k = key THEN cs ELSE cache[k]]

\* Lines 218-219: only a non-empty result is stored.
Store(cache, key, cs) ==
    IF cs # <<>>
    THEN [k \in DOMAIN cache \cup {key} |-> IF k = key THEN cs ELSE cache[k]]
    ELSE cache

\* A DocumentChunk of fetch_filings.
Chunk(company, form, n) ==
    [chunk_id |-> <<company, form, n>>, ticker |-> company, filing_type |-> form]

\* What fetch_filings can return for a company: nothing, or the chunks of
\* its first document type, newest first.
FetchResults(company, doc_types) ==
    { <<>>,
      <<Chunk(company, doc_types[1], "a")>>,
      <<Chunk(company, doc_types[1], "b"), Chunk(company, doc_types[1], "a")>> }

Lookup(q, company, doc_types, date, key, hit, fetched, served) ==
    [q |-> q, company |-> company, document_types |-> doc_types,
     date_from |-> date, key |-> key, hit |-> hit, fetched |-> fetched,
     served |-> served]

\* ---- steps 4 and 5, lines 80-154
\* Lines 105-108: the note about the companies without filings.
MissingNote(missing) ==
    <<"\nNote: No filings found for: ">> \o Join(missing, ", ")
        \o <<". These companies were excluded due to missing or unavailable filings.">>

RECURSIVE CitationText(_, _, _)
\* Lines 133-139: "\n" and a line [C<new_id>] <ticker> <form> ... per used
\* id that the evidence list resolves.
CitationText(ids, new_id, amap) ==
    IF ids = <<>> THEN <<>>
    ELSE LET rest == CitationText(Tail(ids), new_id + 1, amap)
         IN  IF Head(ids) \in DOMAIN amap
             THEN <<"\n">> \o TagText(new_id)
                  \o <<" ", amap[Head(ids)].ticker, " ", amap[Head(ids)].filing_type>>
                  \o rest
             ELSE rest

\* Lines 131-140: "\n" + "\n".join(["", "**Citations**", ...]).
CitationBlock(ids, amap) ==
    IF ids = <<>> THEN <<>>
    ELSE <<"\n", "\n", "**Citations**">> \o CitationText(ids, 1, amap)

\* Line 145.
TimePeriodCovered(time_periods) ==
    IF Join(time_periods, ", ") = <<>> THEN <<"Recent filings">>
    ELSE Join(time_periods, ", ")

\* Lines 104-145 with the citations field cleared along with the sources.
FinalizeClearsCitations(out, cs, missing, companies, a) ==
    LET noted == IF missing # <<>> THEN out.answer \o MissingNote(missing)
                 ELSE out.answer
        ids == parse_used_tags(noted)
        r == compact_renumber(noted, ids)
        srcs == BuildSources(ids, cs)
    IN  [out EXCEPT
            !.answer = r.new_text \o CitationBlock(ids, cs),
            !.sources = srcs,
            !.citations = <<>>,
            !.used_chunk_ids = [k \in 1..Len(srcs) |-> srcs[k].chunk_id],
            !.companies_analyzed = companies,
            !.filing_types_used = a.document_types,
            !.time_period_covered = TimePeriodCovered(a.time_periods)]

\* Lines 104-145: what answer_question makes of the synthesis output.
Finalize(out, cs, missing, companies, a) ==
    LET noted == IF missing # <<>> THEN out.answer \o MissingNote(missing)
                 ELSE out.answer
        ids == parse_used_tags(noted)
        r == compact_renumber(noted, ids)
        srcs == BuildSources(ids, cs)
    IN  [out EXCEPT
            !.answer = r.new_text \o CitationBlock(ids, cs),
            !.sources = srcs,
            !.used_chunk_ids = [k \in 1..Len(srcs) |-> srcs[k].chunk_id],
            !.companies_analyzed = companies,
            !.filing_types_used = a.document_types,
            !.time_period_covered = TimePeriodCovered(a.time_periods)]

\* Lines 158-165.
ErrorAnswer(e) ==
    AnswerWithSources(<<"Error: ", e>>, <<>>, 0, <<>>, <<>>,
                      <<"Internal error during analysis.">>)

\* Lines 60-156 with the query analysis left in front of the try.
InTryAfterAnalysis(step) == step # "query analysis"

\* Lines 60-156: every step of the flow runs inside the try.
InTry(step) == TRUE

\* ---- what the collaborators can hand over
Question(tickers, suggested, doc_types, periods, keywords) ==
    [tickers |-> tickers, suggested_tickers |-> suggested,
     document_types |-> doc_types, time_periods |-> periods,
     keywords |-> keywords]

\* The analyses the query analyzer returns.
QuestionAnalyses ==
    { Question(<<"AAPL">>, <<>>, <<"10-K", "10-Q">>, <<>>, <<>>),
      Question(<<"aapl">>, <<>>, <<"10-Q", "10-K">>, <<>>, <<>>),
      Question(<<"MSFT", "AAPL">>, <<>>, <<>>, <<"recent">>, <<"growth">>),
      Question(<<"AAPL">>, <<>>, <<"10-K", "10-Q">>, <<"recent", "2023">>, <<>>),
      Question(<<>>, <<"MSFT">>, <<>>, <<>>, <<"risk factors">>),
      Question(<<"ZZZZ">>, <<>>, <<"8-K">>, <<"2024">>, <<>>),
      Question(<<"AAPL", "aapl">>, <<>>, <<"8-K">>, <<>>, <<>>) }

\* The answer objects the synthesis step returns: with tags in and out of
\* range and every field filled, or bare.
SynthOutputs ==
    { [answer |-> <<"x">> \o TagText(2) \o TagText(1) \o TagText(2),
       confidence_score |-> 7,
       sources |-> <<[chunk_id |-> <<"made", "up", "a">>]>>,
       citations |-> <<"C2", "C1">>,
       methodology |-> <<"read the chunks">>,
       limitations |-> <<"only recent filings">>,
       companies_analyzed |-> <<"TSLA">>,
       filing_types_used |-> <<"8-K">>,
       time_period_covered |-> <<"2020">>,
       key_metrics |-> <<"revenue">>,
       recommendations |-> <<"fetch more">>,
       tool_used |-> <<"sec_tool">>,
       used_chunk_ids |-> <<(<<"made", "up", "a">>)>>],
      AnswerWithSources(<<"x">>, <<>>, 5, <<>>, <<>>, <<>>) }

\* str(e) of the exceptions a step can raise.
Exceptions == {"timed out", "validation error"}

\* ---- answer_question, one action per step
QaInit ==
    /\ CiteIdle
    /\ SelIdle
    /\ RetIdle
    /\ qpc = "ready"
    /\ nq = 0
    /\ query = NoQuery
    /\ target_companies = <<>>
    /\ document_types = <<>>
    /\ date_from = <<>>
    /\ li = 1
    /\ all_chunks = <<>>
    /\ document_cache = <<>>
    /\ missing_companies = <<>>
    /\ lookups = <<>>
    /\ model_output = NoAnswer
    /\ answer = NoAnswer
    /\ last_error = <<>>
    /\ threads = <<>>
    /\ service = {}

\* The step of the flow that runs next.
StepAt ==
    CASE qpc = "ready" -> "query analysis"
      [] qpc = "companies" -> "company determination"
      [] qpc = "retrieve" -> "retrieval"
      [] qpc = "lookup" /\ li <= Len(target_companies) -> "retrieval"
      [] qpc = "lookup" /\ li > Len(target_companies) -> "synthesis"
      [] OTHER -> "citation reconciliation"

\* Step 1, line 62-65: a question comes in and the analyzer answers.
AnalyseQuery ==
    /\ qpc = "ready"
    /\ nq < MaxQuestions
    /\ query' \in QuestionAnalyses
    /\ nq' = nq + 1
    /\ qpc' = "companies"
    /\ model_output' = NoAnswer
    /\ UNCHANGED <<target_companies, document_types, date_from, li, all_chunks,
                   document_cache, missing_companies, lookups, answer,
                   last_error>>
    /\ UNCHANGED <<citeVars, selVars, retVars, threads, service>>

\* Step 2, line 73.
DetermineCompanies ==
    /\ qpc = "companies"
    /\ target_companies' = determine_companies(query)
    /\ qpc' = "retrieve"
    /\ UNCHANGED <<nq, query, document_types, date_from, li, all_chunks,
                   document_cache, missing_companies, lookups, model_output,
                   answer, last_error>>
    /\ UNCHANGED <<citeVars, selVars, retVars, threads, service>>

\* Lines 199-208 of _retrieve_documents.
RetrieveStart ==
    /\ qpc = "retrieve"
    /\ all_chunks' = <<>>
    /\ missing_companies' = <<>>
    /\ date_from' = DateFrom(query.time_periods)
    /\ document_types' = EffectiveDocTypes(query)
    /\ li' = 1
    /\ qpc' = "lookup"
    /\ UNCHANGED <<nq, query, target_companies, document_cache, lookups,
                   model_output, answer, last_error>>
    /\ UNCHANGED <<citeVars, selVars, retVars, threads, service>>

\* Lines 211-213: the key is in the cache.
LookupHit ==
    /\ qpc = "lookup"
    /\ li <= Len(target_companies)
    /\ LET company == target_companies[li]
           key == cache_key(company, document_types, date_from)
       IN  /\ CacheHit(document_cache, key)
           /\ all_chunks' = all_chunks \o document_cache[key]
           /\ lookups' = Append(lookups,
                 Lookup(nq, company, document_types, date_from, key, TRUE,
                        <<>>, document_cache[key]))
    /\ li' = li + 1
    /\ UNCHANGED <<qpc, nq, query, target_companies, document_types, date_from,
                   document_cache, missing_companies, model_output, answer,
                   last_error>>
    /\ UNCHANGED <<citeVars, selVars, retVars, threads, service>>

\* Lines 214-222: the key is not in the cache and fetch_filings is called.
LookupMiss ==
    /\ qpc = "lookup"
    /\ li <= Len(target_companies)
    /\ LET company == target_companies[li]
           key == cache_key(company, document_types, date_from)
       IN  /\ ~CacheHit(document_cache, key)
           /\ \E cs \in FetchResults(company, document_types) :
                 /\ document_cache' = Store(document_cache, key, cs)
                 /\ all_chunks' = all_chunks \o cs
                 /\ missing_companies' =
                       IF cs # <<>> THEN missing_companies
                       ELSE Append(missing_companies, company)
                 /\ lookups' = Append(lookups,
                       Lookup(nq, company, document_types, date_from, key,
                              FALSE, cs, cs))
    /\ li' = li + 1
    /\ UNCHANGED <<qpc, nq, query, target_companies, document_types, date_from,
                   model_output, answer, last_error>>
    /\ UNCHANGED <<citeVars, selVars, retVars, threads, service>>

\* Step 4, lines 81-102: the synthesis step answers.
Synthesize ==
    /\ qpc = "lookup"
    /\ li > Len(target_companies)
    /\ model_output' \in SynthOutputs
    /\ qpc' = "citations"
    /\ UNCHANGED <<nq, query, target_companies, document_types, date_from, li,
                   all_chunks, document_cache, missing_companies, lookups,
                   answer, last_error>>
    /\ UNCHANGED <<citeVars, selVars, retVars, threads, service>>

\* Lines 104-154: the note, step 5, the metadata, and the return; the
\* locals of the call are gone afterwards.
ReturnAnswer ==
    /\ qpc = "citations"
    /\ answer' = Finalize(model_output, all_chunks, missing_companies,
                          target_companies, query)
    /\ last_error' = <<>>
    /\ qpc' = "ready"
    /\ query' = NoQuery
    /\ target_companies' = <<>>
    /\ document_types' = <<>>
    /\ date_from' = <<>>
    /\ li' = 1
    /\ all_chunks' = <<>>
    /\ UNCHANGED <<nq, document_cache, missing_companies, lookups, model_output>>
    /\ UNCHANGED <<citeVars, selVars, retVars, threads, service>>

\* An exception is raised in the step that runs next; lines 156-165 catch
\* it when the step lies inside the try.
Raise ==
    /\ qpc \in {"ready", "companies", "retrieve", "lookup", "citations"}
    /\ qpc = "ready" => nq < MaxQuestions
    /\ \E e \in Exceptions :
          /\ last_error' = <<StepAt, e>>
          /\ IF InTry(StepAt)
             THEN answer' = ErrorAnswer(e) /\ qpc' = "ready"
             ELSE answer' = answer /\ qpc' = "propagated"
    /\ nq' = IF qpc = "ready" THEN nq + 1 ELSE nq
    /\ query' = NoQuery
    /\ target_companies' = <<>>
    /\ document_types' = <<>>
    /\ date_from' = <<>>
    /\ li' = 1
    /\ all_chunks' = <<>>
    /\ model_output' = NoAnswer
    /\ UNCHANGED <<document_cache, missing_companies, lookups>>
    /\ UNCHANGED <<citeVars, selVars, retVars, threads, service>>

QaNext ==
    \/ AnalyseQuery
    \/ DetermineCompanies
    \/ RetrieveStart
    \/ LookupHit
    \/ LookupMiss
    \/ Synthesize
    \/ ReturnAnswer
    \/ Raise

SpecAnswer == QaInit /\ [][QaNext]_vars

\* ------------------------------------------ properties of the session
\* Lookups i and j ask for the same company, document types and date floor.
SameRequest(i, j) ==
    /\ lookups[i].company = lookups[j].company
    /\ lookups[i].document_types = lookups[j].document_types
    /\ lookups[i].date_from = lookups[j].date_from

\* C12 as stated: of two lookups with the same key the second never
\* fetches, and returns what the first returned.
C12_CacheIdempotent ==
    \A i, j \in 1..Len(lookups) :
        (i < j /\ SameRequest(i, j)) =>
            /\ lookups[j].hit
            /\ lookups[j].served = lookups[i].served

\* C12, amended: of two lookups with the same key, the first of which was
\* served a non-empty sequence, the second does not fetch and is served the
\* same sequence, whatever lookups came in between; the sequence a lookup was
\* served stays in the cache under its key, unchanged, from then on.
C12_CacheIdempotentOnceStored ==
    /\ \A i, j \in 1..Len(lookups) :
          (i < j /\ SameRequest(i, j) /\ lookups[i].served # <<>>) =>
              /\ lookups[j].hit
              /\ lookups[j].fetched = <<>>
              /\ lookups[j].served = lookups[i].served
    /\ \A i \in 1..Len(lookups) :
          lookups[i].served # <<>> =>
              /\ lookups[i].key \in DOMAIN document_cache
              /\ document_cache[lookups[i].key] = lookups[i].served

C12_Witness ==
    /\ Len(lookups) = 3
    /\ ~lookups[1].hit
    /\ Len(lookups[1].served) = 2
    /\ ~SameRequest(1, 2)
    /\ ~lookups[2].hit
    /\ lookups[2].served # <<>>
    /\ SameRequest(1, 3)
    /\ lookups[3].hit
    /\ lookups[3].served = lookups[1].served

\* The companies whose fetch came back empty in the question in progress,
\* in lookup order.
EmptyFetchesNow ==
    LET mine == SelectSeq(lookups,
                    LAMBDA l : l.q = nq /\ ~l.hit /\ l.fetched = <<>>)
    IN  [k \in 1..Len(mine) |-> mine[k].company]

\* C13: no cache entry is an empty sequence; a fetch that returned nothing
\* left nothing under its key, so that the next lookup of that key fetches
\* again, and its company is in missing_companies for the rest of the
\* question.
C13_EmptyNeverCached ==
    /\ \A k \in DOMAIN document_cache : document_cache[k] # <<>>
    /\ \A i \in 1..Len(lookups) :
          (~lookups[i].hit /\ lookups[i].fetched = <<>>) =>
              /\ lookups[i].served = <<>>
              /\ \A j \in (i + 1)..Len(lookups) :
                    (/\ lookups[j].key = lookups[i].key
                     /\ \A m \in (i + 1)..(j - 1) : lookups[m].key # lookups[i].key)
                        => ~lookups[j].hit
    /\ qpc \in {"lookup", "citations"} => missing_companies = EmptyFetchesNow

C13_Witness ==
    /\ qpc = "lookup"
    /\ Len(lookups) = 3
    /\ lookups[1].fetched = <<>>
    /\ lookups[2].key = lookups[1].key
    /\ ~lookups[2].hit
    /\ lookups[2].fetched # <<>>
    /\ lookups[3].q = nq
    /\ lookups[3].fetched = <<>>
    /\ ~lookups[3].hit
    /\ missing_companies = <<lookups[3].company>>

\* C20: two lookups for the same company and date floor whose document
\* types are the same set, in whatever order, use the same cache entry: the
\* second is a hit when the first was served a result.
C20_KeySortsDocumentTypes ==
    \A i, j \in 1..Len(lookups) :
        (/\ i < j
         /\ lookups[i].company = lookups[j].company
         /\ lookups[i].date_from = lookups[j].date_from
         /\ Range(lookups[i].document_types) = Range(lookups[j].document_types)
         /\ lookups[i].served # <<>>) =>
            /\ lookups[j].hit
            /\ lookups[j].served = lookups[i].served

\* C15: an exception raised in any step of the flow does not leave
\* answer_question; the answer returned has confidence 0, no sources, the
\* text "Error: " followed by the message of the exception, and a limitation
\* note.
C15_ErrorAnswer ==
    /\ qpc # "propagated"
    /\ (qpc = "ready" /\ last_error # <<>>) =>
          /\ last_error[1] \in {"query analysis", "company determination",
                                "retrieval", "synthesis",
                                "citation reconciliation"}
          /\ answer.confidence_score = 0
          /\ answer.sources = <<>>
          /\ answer.answer = <<"Error: ", last_error[2]>>
          /\ answer.limitations = <<"Internal error during analysis.">>

C15_Witness ==
    /\ qpc = "ready"
    /\ nq = 2
    /\ last_error = <<"retrieval", "timed out">>
    /\ Len(lookups) = 2
    /\ lookups[2].q = 2
    /\ answer.confidence_score = 0
    /\ answer.answer = <<"Error: ", "timed out">>

\* The last question was answered without an exception.
Succeeded == qpc = "ready" /\ nq > 0 /\ last_error = <<>>

\* C16 as stated: apart from answer and sources every field of the answer
\* returned is the field of the synthesis output.
C16_OnlyCitationFieldsDiffer ==
    Succeeded =>
        \A f \in DOMAIN model_output \ {"answer", "sources"} :
            answer[f] = model_output[f]

\* C16, amended: apart from answer, sources, used_chunk_ids,
\* companies_analyzed, filing_types_used and time_period_covered every field
\* of the answer returned is the field of the synthesis output.
C16_OtherFieldsPassThrough ==
    Succeeded =>
        /\ DOMAIN answer = DOMAIN model_output
        /\ \A f \in {"confidence_score", "citations", "methodology",
                     "limitations", "key_metrics", "recommendations",
                     "tool_used"} :
              answer[f] = model_output[f]

C16_Witness ==
    /\ Succeeded
    /\ model_output.citations = <<"C2", "C1">>
    /\ answer.citations = model_output.citations
    /\ answer.methodology = <<"read the chunks">>
    /\ answer.confidence_score = 7
    /\ answer.used_chunk_ids # model_output.used_chunk_ids
    /\ answer.companies_analyzed # model_output.companies_analyzed
    /\ answer.sources # model_output.sources

\* The (ticker, form) pairs the plan of the selector allows to fetch: the
\* capped targets and the pair of the probe.
PlanPairs ==
    {<<Capped[t].ticker, Capped[t].filing_type>> : t \in 1..Len(Capped)}
        \cup {<<c, ProbeForm(analysis)>> : c \in Range(ProbeCands(analysis))}

\* The (ticker, form) pairs lookup i asked the filing service for.
FetchedPairs(i) ==
    {<<lookups[i].company, f>> : f \in Range(lookups[i].document_types)}

\* C22: the evidence of a question comes from the selector and then the
\* fallback controller: whenever a lookup fetched filings the selector had
\* produced its plan, and what was fetched is a capped target of that plan
\* or the probe.
C22_SelectorThenController ==
    \A i \in 1..Len(lookups) :
        ~lookups[i].hit =>
            /\ rpc \notin {"idle", "plan"}
            /\ FetchedPairs(i) \subseteq PlanPairs

\* The lookups of the question in progress.
LookupsNow == SelectSeq(lookups, LAMBDA l : l.q = nq)

\* C27: the missing list is exactly the companies of the latest retrieval
\* whose key was not cached and whose fetch gave nothing, in company order;
\* once the retrieval is over no company served from the cache is listed,
\* and the target companies are the disjoint union of the companies that
\* contributed evidence and the companies listed.
C27_MissingPartitionsTargets ==
    /\ qpc \in {"lookup", "citations"} => missing_companies = EmptyFetchesNow
    /\ qpc = "citations" =>
          LET contributing ==
                  {LookupsNow[k].company :
                      k \in {m \in 1..Len(LookupsNow) : LookupsNow[m].served # <<>>}}
              listed == Range(missing_companies)
          IN  /\ contributing \cup listed = Range(target_companies)
              /\ contributing \cap listed = {}
              /\ \A k \in 1..Len(LookupsNow) :
                    LookupsNow[k].hit => LookupsNow[k].company \notin listed

\* ============================================ two concurrent questions
\* answer_question called by two threads on one EnhancedSECQASystem, with
\* one exclusive lock around the get-or-fetch of lines 211-222.
\* document_cache and missing_companies are attributes of the instance and
\* shared; everything else is local to a call.
Threads == {1, 2}

Thread(pc, q, companies, doc_types, date, i, cs, reported) ==
    [pc |-> pc, query |-> q, target_companies |-> companies,
     document_types |-> doc_types, date_from |-> date, li |-> i,
     all_chunks |-> cs, reported |-> reported]

\* fetch_filings against a service that answers the same request the same
\* way: the newest filing of a company it has filings of, else nothing.
ServiceAnswer(company, doc_types) ==
    IF company \in service THEN <<Chunk(company, doc_types[1], "a")>> ELSE <<>>

\* The locals of the sequential session are not used.
seqLocals == <<qpc, nq, query, target_companies, document_types, date_from, li,
               all_chunks, model_output, answer, last_error>>

ConInit ==
    /\ CiteIdle
    /\ SelIdle
    /\ RetIdle
    /\ qpc = "idle"
    /\ nq = 0
    /\ query = NoQuery
    /\ target_companies = <<>>
    /\ document_types = <<>>
    /\ date_from = <<>>
    /\ li = 1
    /\ all_chunks = <<>>
    /\ model_output = NoAnswer
    /\ answer = NoAnswer
    /\ last_error = <<>>
    /\ document_cache = <<>>
    /\ missing_companies = <<>>
    /\ lookups = <<>>
    /\ service \in SUBSET Resolvable
    /\ threads = [t \in Threads |->
                     Thread("ready", NoQuery, <<>>, <<>>, <<>>, 1, <<>>, <<>>)]

\* Lines 62-73: the question of thread t is analysed and its companies
\* determined; nothing shared is touched.
ConAnalyse(t) ==
    /\ threads[t].pc = "ready"
    /\ \E q \in QuestionAnalyses :
          threads' = [threads EXCEPT ![t].pc = "retrieve",
                                     ![t].query = q,
                                     ![t].target_companies = determine_companies(q)]
    /\ UNCHANGED <<document_cache, missing_companies, lookups, service, seqLocals>>
    /\ UNCHANGED <<citeVars, selVars, retVars>>

\* Lines 199-208: the missing list of the instance is emptied.
ConRetrieveStart(t) ==
    /\ threads[t].pc = "retrieve"
    /\ missing_companies' = <<>>
    /\ threads' = [threads EXCEPT
          ![t].pc = "lookup",
          ![t].all_chunks = <<>>,
          ![t].date_from = DateFrom(threads[t].query.time_periods),
          ![t].document_types = EffectiveDocTypes(threads[t].query),
          ![t].li = 1]
    /\ UNCHANGED <<document_cache, lookups, service, seqLocals>>
    /\ UNCHANGED <<citeVars, selVars, retVars>>

\* Lines 211-222 for one company, as one step under the lock.
ConLookup(t) ==
    /\ threads[t].pc = "lookup"
    /\ threads[t].li <= Len(threads[t].target_companies)
    /\ LET th == threads[t]
           company == th.target_companies[th.li]
           key == cache_key(company, th.document_types, th.date_from)
           hit == CacheHit(document_cache, key)
           cs == IF hit THEN document_cache[key]
                 ELSE ServiceAnswer(company, th.document_types)
       IN  /\ document_cache' =
                 IF hit THEN document_cache ELSE Store(document_cache, key, cs)
           /\ missing_companies' =
                 IF hit \/ cs # <<>> THEN missing_companies
                 ELSE Append(missing_companies, company)
           /\ threads' = [threads EXCEPT ![t].all_chunks = th.all_chunks \o cs,
                                          ![t].li = th.li + 1]
           /\ lookups' = Append(lookups,
                 Lookup(t, company, th.document_types, th.date_from, key, hit,
                        IF hit THEN <<>> ELSE cs, cs))
    /\ UNCHANGED <<service, seqLocals>>
    /\ UNCHANGED <<citeVars, selVars, retVars>>

\* Lines 77-109: the evidence list goes to the synthesis step and the note
\* is written from the missing list of the instance as it is then.
ConSynthesize(t) ==
    /\ threads[t].pc = "lookup"
    /\ threads[t].li > Len(threads[t].target_companies)
    /\ threads' = [threads EXCEPT ![t].pc = "done",
                                   ![t].reported = missing_companies]
    /\ UNCHANGED <<document_cache, missing_companies, lookups, service, seqLocals>>
    /\ UNCHANGED <<citeVars, selVars, retVars>>

ConNext ==
    \E t \in Threads :
        \/ ConAnalyse(t)
        \/ ConRetrieveStart(t)
        \/ ConLookup(t)
        \/ ConSynthesize(t)

SpecConcurrent == ConInit /\ [][ConNext]_vars

RECURSIVE RetrieveLoop(_, _, _, _, _, _)
\* The loop of lines 210-222 run without interruption.
RetrieveLoop(companies, doc_types, date, cache, cs, missing) ==
    IF companies = <<>>
    THEN [all_chunks |-> cs, missing |-> missing, cache |-> cache]
    ELSE LET key == cache_key(Head(companies), doc_types, date)
             got == ServiceAnswer(Head(companies), doc_types)
         IN  IF CacheHit(cache, key)
             THEN RetrieveLoop(Tail(companies), doc_types, date, cache,
                               cs \o cache[key], missing)
             ELSE RetrieveLoop(Tail(companies), doc_types, date,
                               Store(cache, key, got), cs \o got,
                               IF got # <<>> THEN missing
                               ELSE Append(missing, Head(companies)))

\* _retrieve_documents for question q run alone on a system with the given
\* cache: the evidence list, the missing list and the cache afterwards.
retrieve_documents(q, cache) ==
    RetrieveLoop(determine_companies(q), EffectiveDocTypes(q),
                 DateFrom(q.time_periods), cache, <<>>, <<>>)

\* The outcome of the question of thread t when the question of thread
\* first is processed to its end before the other one starts.
SequentialOutcome(t, first) ==
    LET o1 == retrieve_documents(threads[first].query, <<>>)
    IN  IF t = first THEN o1
        ELSE retrieve_documents(threads[t].query, o1.cache)

\* C26: with the get-or-fetch under one lock, the evidence list and the
\* reported missing companies of each of two concurrent questions are those
\* of some sequential execution of the two questions.
C26_Serializable ==
    (\A t \in Threads : threads[t].pc = "done") =>
        \A t \in Threads :
            \E first \in Threads :
                /\ threads[t].all_chunks = SequentialOutcome(t, first).all_chunks
                /\ threads[t].reported = SequentialOutcome(t, first).missing
====
